---- MODULE Spec2Model ----
(***************************************************************************)
(* Weather data pipeline: ingestion of per-station text files into the     *)
(* weather_data table (app/ingestion.py) and aggregation of the table into *)
(* per-station, per-year rows of weather_stats (app/analysis.py).          *)
(*                                                                         *)
(* A text line is the sequence of the code points of its characters; a     *)
(* table is the sequence of its rows in insertion order (a row's id is its *)
(* position). A float is the exact fraction <<numerator, denominator>> in  *)
(* lowest terms, None is the empty tuple.                                  *)
(***************************************************************************)
EXTENDS Integers, Sequences, FiniteSets, TLC

\* ------------------------------------------------------------------ bounds
\* Lines the ingestion runs of one behaviour read, over all their files.
MaxLines == 3
\* Largest batch_size an ingester is constructed with.
MaxBatch == 2
\* Failures of the environment in one behaviour: of the storage (other than
\* uniqueness conflicts) and of the file system (a file cannot be opened or
\* read).
MaxFaults == 1
\* Ingestion runs started one after the other.
MaxRuns == 2
\* Aggregation runs started one after the other.
MaxCalcs == 2
MaxOddFields == 2

\* The missing-data sentinel.
Sentinel == -9999

\* Python's None, where the other values are tuples.
None == <<>>

\* ------------------------------------------------------------- characters
\* A character is its code point (Python's ord).
TAB == 9
SPACE == 32
PLUS == 43
MINUS == 45
SLASH == 47
UNDERSCORE == 95

\* The ASCII digit of d: '0' + d.
AsciiDigit(d) == 48 + d

\* The characters str.strip() removes and str.isspace() holds for.
Whitespace ==
    (9..13) \cup (28..32) \cup {133, 160, 5760} \cup (8192..8202)
        \cup {8232, 8233, 8239, 8287, 12288}

\* The code points of the digits zero of the scripts of Unicode: each is
\* followed by its digits one to nine.
DigitZeros ==
    {48, 1632, 1776, 1984, 2406, 2534, 2662, 2790, 2918, 3046, 3174, 3302,
     3430, 3558, 3664, 3792, 3872, 4160, 4240, 6112, 6160, 6470, 6608, 6784,
     6800, 6992, 7088, 7232, 7248, 42528, 43216, 43264, 43472, 43504, 43600,
     44016, 65296, 66720, 68912, 69734, 69872, 69942, 70096, 70384, 70736,
     70864, 71248, 71360, 71472, 71904, 72016, 72784, 73040, 73120, 92768,
     92864, 93008, 120782, 120792, 120802, 120812, 120822, 123200, 123632,
     125264, 130032}

\* The decimal digits: what int() takes for a digit and \d matches.
Digits == UNION {z..(z + 9) : z \in DigitZeros}

DigitVal(c) ==
    IF c \in 48..57 THEN c - 48
    ELSE c - (CHOOSE z \in DigitZeros : z <= c /\ c <= z + 9)

\* ord(c) of the characters of ASCII that the texts below are written
\* with, each written as a string.
Lower ==
    <<"a", "b", "c", "d", "e", "f", "g", "h", "i", "j", "k", "l", "m", "n",
      "o", "p", "q", "r", "s", "t", "u", "v", "w", "x", "y", "z">>

Ord(c) ==
    CASE c = "\t" -> 9 [] c = "\n" -> 10 [] c = "\f" -> 12 [] c = "\r" -> 13
      [] c = " " -> 32 [] c = "+" -> 43 [] c = "-" -> 45 [] c = "." -> 46
      [] c = "/" -> 47 [] c = "_" -> 95
      [] c = "0" -> 48 [] c = "1" -> 49 [] c = "2" -> 50 [] c = "3" -> 51
      [] c = "4" -> 52 [] c = "5" -> 53 [] c = "6" -> 54 [] c = "7" -> 55
      [] c = "8" -> 56 [] c = "9" -> 57
      [] OTHER -> 96 + (CHOOSE k \in 1..Len(Lower) : Lower[k] = c)

\* The text whose characters are written one by one.
Text(s) == [k \in 1..Len(s) |-> Ord(s[k])]

\* The text of n characters c.
Repeated(c, n) == SubSeq([k \in 1..n |-> c], 1, n)

\* The text without the characters of blanks at its two ends.
Trim(s, blanks) ==
    IF \A k \in 1..Len(s) : s[k] \in blanks THEN <<>>
    ELSE SubSeq(s, CHOOSE i \in 1..Len(s) :
                       s[i] \notin blanks /\ \A j \in 1..(i - 1) : s[j] \in blanks,
                   CHOOSE i \in 1..Len(s) :
                       s[i] \notin blanks /\ \A j \in (i + 1)..Len(s) : s[j] \in blanks)

\* str.strip()
Strip(s) == Trim(s, Whitespace)

\* The characters int() skips around the number: the separators U+001C to
\* U+001F are blanks to str.strip() and not to int().
IntBlanks == Whitespace \ (28..31)

\* str.split(sep): the parts between the separators, always at least one
\* part; the separators are at the places cuts, the i-th of them at At(i).
Split(s, sep) ==
    LET cuts == {k \in 1..Len(s) : s[k] = sep}
        At(i) == IF i = 0 THEN 0
                 ELSE IF i > Cardinality(cuts) THEN Len(s) + 1
                 ELSE CHOOSE k \in cuts : Cardinality({j \in cuts : j < k}) = i - 1
    IN  [i \in 1..(Cardinality(cuts) + 1) |-> SubSeq(s, At(i - 1) + 1, At(i) - 1)]

AllDigits(s) == \A k \in 1..Len(s) : s[k] \in Digits

\* The digits of the text without the underscores between them.
Ungrouped(s) == SelectSeq(s, LAMBDA c : c # UNDERSCORE)

\* The number the digits write; digits that are all zeros, however many,
\* write 0.
RECURSIVE DigitsVal(_)
DigitsVal(s) ==
    IF \A k \in 1..Len(s) : DigitVal(s[k]) = 0 THEN 0
    ELSE 10 * DigitsVal(SubSeq(s, 1, Len(s) - 1)) + DigitVal(s[Len(s)])

\* sys.get_int_max_str_digits() as the interpreter starts: int() raises
\* ValueError for a text of more digits, whatever the digits are.
MaxStrDigits == 4300

\* int(text): blanks of IntBlanks around; an optional sign; then decimal
\* digits, with single underscores between digits allowed, and no more
\* than MaxStrDigits digits.
IntBody(s) == IF s # <<>> /\ Head(s) \in {MINUS, PLUS} THEN Tail(s) ELSE s

IsInt(text) ==
    LET body == IntBody(Trim(text, IntBlanks)) IN
    /\ body # <<>>
    /\ Len(Ungrouped(body)) <= MaxStrDigits
    /\ \A k \in 1..Len(body) :
          \/ body[k] \in Digits
          \/ /\ body[k] = UNDERSCORE
             /\ 1 < k /\ k < Len(body)
             /\ body[k - 1] \in Digits /\ body[k + 1] \in Digits

IntOf(text) ==
    LET s == Trim(text, IntBlanks) IN
    IF s # <<>> /\ Head(s) = MINUS
    THEN 0 - DigitsVal(Ungrouped(IntBody(s)))
    ELSE DigitsVal(Ungrouped(IntBody(s)))

\* ------------------------------------------------------------------ dates
IsLeap(y) == (y % 4 = 0 /\ y % 100 # 0) \/ y % 400 = 0

DaysInMonth(y, m) ==
    IF m = 2 THEN (IF IsLeap(y) THEN 29 ELSE 28)
    ELSE IF m \in {4, 6, 9, 11} THEN 30 ELSE 31

\* strptime's %m: 1[0-2] | 0[1-9] | [1-9], the alternatives in this order
MonthMatches(s) ==
    (IF Len(s) >= 2 /\ s[1] = AsciiDigit(1) /\ s[2] \in AsciiDigit(0)..AsciiDigit(2)
     THEN <<2>> ELSE <<>>)
    \o (IF Len(s) >= 2 /\ s[1] = AsciiDigit(0) /\ s[2] \in AsciiDigit(1)..AsciiDigit(9)
        THEN <<2>> ELSE <<>>)
    \o (IF Len(s) >= 1 /\ s[1] \in AsciiDigit(1)..AsciiDigit(9) THEN <<1>> ELSE <<>>)

\* strptime's %d: 3[0-1] | [1-2]\d | 0[1-9] | [1-9] | " "[1-9], in this
\* order; \d is any decimal digit, the ranges are of ASCII.
DayMatches(s) ==
    (IF Len(s) >= 2 /\ s[1] = AsciiDigit(3) /\ s[2] \in AsciiDigit(0)..AsciiDigit(1)
     THEN <<2>> ELSE <<>>)
    \o (IF Len(s) >= 2 /\ s[1] \in AsciiDigit(1)..AsciiDigit(2) /\ s[2] \in Digits
        THEN <<2>> ELSE <<>>)
    \o (IF Len(s) >= 2 /\ s[1] = AsciiDigit(0) /\ s[2] \in AsciiDigit(1)..AsciiDigit(9)
        THEN <<2>> ELSE <<>>)
    \o (IF Len(s) >= 1 /\ s[1] \in AsciiDigit(1)..AsciiDigit(9) THEN <<1>> ELSE <<>>)
    \o (IF Len(s) >= 2 /\ s[1] = SPACE /\ s[2] \in AsciiDigit(1)..AsciiDigit(9)
        THEN <<2>> ELSE <<>>)

\* The first match of the regular expression of '%Y%m%d' at the start of s:
\* <<year text, month text, day text, characters matched>>, or <<>>.
StrptimeMatch(s) ==
    IF Len(s) < 4 \/ ~AllDigits(SubSeq(s, 1, 4)) THEN <<>>
    ELSE
        LET rest == SubSeq(s, 5, Len(s))
            ms == MonthMatches(rest)
            good == {k \in 1..Len(ms) :
                        DayMatches(SubSeq(rest, ms[k] + 1, Len(rest))) # <<>>}
        IN  IF good = {} THEN <<>>
            ELSE
                LET k == CHOOSE k \in good : \A j \in good : k <= j
                    ml == ms[k]
                    after == SubSeq(rest, ml + 1, Len(rest))
                    dl == DayMatches(after)[1]
                IN  <<SubSeq(s, 1, 4), SubSeq(rest, 1, ml), SubSeq(after, 1, dl), 4 + ml + dl>>

\* datetime.strptime(text, '%Y%m%d').date(): <<year, month, day>>, or None
\* where it raises ValueError.
Strptime(text) ==
    LET m == StrptimeMatch(text) IN
    IF m = <<>> THEN None
    ELSE IF m[4] # Len(text) THEN None
    ELSE
        LET y == DigitsVal(m[1])
            mo == DigitsVal(m[2])
            d == DigitsVal(Strip(m[3]))
        IN  IF y < 1 \/ d > DaysInMonth(y, mo) THEN None ELSE <<y, mo, d>>

\* ------------------------------------------------------------ _parse_line
WeatherData(station_id, date, max_temp, min_temp, precipitation) ==
    [station_id |-> station_id, date |-> date, max_temp |-> max_temp,
     min_temp |-> min_temp, precipitation |-> precipitation]

\* _parse_line(line, station_id) raises ValueError
ParseRaises(line) ==
    LET parts == Split(line, TAB) IN
    \/ Len(parts) # 4
    \/ ~IsInt(Strip(parts[2])) \/ ~IsInt(Strip(parts[3])) \/ ~IsInt(Strip(parts[4]))
    \/ Strptime(Strip(parts[1])) = None

\* Mutant: max_temp and min_temp change places.
ParseLineSwapped(line, station_id) ==
    LET parts == Split(line, TAB) IN
    [station_id |-> station_id, date |-> Strptime(Strip(parts[1])),
     max_temp |-> IntOf(Strip(parts[3])), min_temp |-> IntOf(Strip(parts[2])),
     precipitation |-> IntOf(Strip(parts[4]))]

\* _parse_line(line, station_id) where it returns
ParseLine(line, station_id) ==
    LET parts == Split(line, TAB) IN
    WeatherData(station_id, Strptime(Strip(parts[1])),
                IntOf(Strip(parts[2])), IntOf(Strip(parts[3])), IntOf(Strip(parts[4])))

\* ------------------------------------------------------------------ input
Stations == {"S1", "S2"}

\* The *.txt files a data directory can hold, in the orders glob can list
\* them (the order of the directory's entries, which nothing sorts); a file
\* is named by its stem, the station identifier.
FileLists == {<<>>, <<"S1">>, <<"S2">>, <<"S1", "S2">>, <<"S2", "S1">>}

D20230101 == Text(<<"2", "0", "2", "3", "0", "1", "0", "1">>)
D20230102 == Text(<<"2", "0", "2", "3", "0", "1", "0", "2">>)
D20240103 == Text(<<"2", "0", "2", "4", "0", "1", "0", "3">>)
Missing == Text(<<"-", "9", "9", "9", "9">>)

Line4(d, a, b, c) == d \o <<TAB>> \o a \o <<TAB>> \o b \o <<TAB>> \o c

LineA == Line4(D20230101, Text(<<"1", "0", "0">>), Text(<<"-", "5", "0">>), Text(<<"2", "5">>))
LineA2 == Line4(D20230101, Text(<<"1", "5", "0">>), Text(<<"0">>), Text(<<"0">>))
LineB == Line4(D20230102, Missing, Text(<<"-", "1", "0", "0">>), Text(<<"5", "0">>))
LineC == Line4(D20240103, Missing, Missing, Missing)
LineBad == Text(<<"1", "9", "8", "5", "0", "1", "0", "1", "\t", "-", "2", "2", "\t", "-", "1", "2", "8">>)
\* A line of a blank and a form feed.
LineBlank == Text(<<" ", "\f">>)

\* The lines a file is made of: valid lines of two dates and a malformed
\* one; with them a second line of the first date and a blank line.
FilledLines == {LineA, LineB, LineBad}

\* The lines of files whose records all differ in their date.
DistinctLines == {LineA, LineB, LineC}

BatchSizes == 1..MaxBatch

\* ------------------------------------------------- input of _parse_line
\* Date fields of the form YYYYMMDD that denote a calendar date.
ValidDateFields ==
    { D20230101, D20240103,
      Text(<<"1", "9", "8", "5", "0", "1", "0", "1">>),
      Text(<<"2", "0", "2", "4", "0", "2", "2", "9">>) }

\* Date fields that are not: no such day, no such month, year 0, fewer than
\* eight digits, a blank for a digit, separators, a letter, nothing.
BadDateFields ==
    { Text(<<"2", "0", "2", "3", "0", "2", "2", "9">>),
      Text(<<"2", "0", "2", "3", "1", "3", "0", "1">>),
      Text(<<"0", "0", "0", "0", "0", "1", "0", "1">>),
      Text(<<"2", "0", "2", "3", "0", "1", "1">>),
      Text(<<"2", "0", "2", "3", "1", "1">>),
      Text(<<"2", "0", "2", "3", "0", "1", " ", "1">>),
      Text(<<"2", "0", "2", "3", "-", "0", "1", "-", "0", "1">>),
      Text(<<"2", "0", "2", "3", "0", "1", "0", "a">>),
      <<>> }

\* Numeric fields that are integers; and that are not, the last three for
\* their length: a one, a zero and a minus nine of MaxStrDigits + 1 digits.
ValidIntFields == { Text(<<"1", "0", "0">>), Text(<<"-", "2", "2">>), Text(<<"0">>), Text(<<"-", "1", "2", "8">>), Text(<<"9", "4">>), Missing }
BadIntFields ==
    { Text(<<"a", "b", "c">>), Text(<<"1", ".", "5">>), Text(<<"1", "2", "a">>), <<>>,
      Text(<<"1", "_", "_", "0">>), Text(<<"_", "1">>), Text(<<"-", " ", "5">>),
      Repeated(AsciiDigit(1), MaxStrDigits + 1),
      Repeated(AsciiDigit(0), MaxStrDigits + 1),
      <<MINUS>> \o Repeated(AsciiDigit(9), MaxStrDigits + 1) }

\* Date fields and numeric fields written in other ways that strptime and
\* int() take: digits of other scripts (Arabic-Indic one, nine, eight, five
\* and three, a fullwidth one), a no-break space or a form feed before the
\* field, a plus sign, an underscore between two digits, a zero of
\* MaxStrDigits digits.
LooseDateFields ==
    { <<1633, 1641, 1640, 1637>> \o Text(<<"0", "1", "0", "1">>),
      <<160>> \o Text(<<"1", "9", "8", "5", "0", "1", "0", "1">>),
      Text(<<"1", "9", "8", "5", "0", "1", "2">>) \o <<1635>> }
LooseIntFields ==
    { Text(<<"1", "_", "0">>), Text(<<"+", "5">>), Text(<<"\f", "5">>),
      <<1635>>, <<65297, UNDERSCORE, 1632>>,
      Repeated(AsciiDigit(0), MaxStrDigits) }

\* The fields a line is made of: date, max_temp, min_temp, precipitation.
FieldChoices ==
    (ValidDateFields \cup BadDateFields \cup LooseDateFields)
        \X (ValidIntFields \cup BadIntFields \cup LooseIntFields)
        \X {Text(<<"-", "1", "2", "8">>), Missing, Text(<<"a", "b", "c">>)} \X {Text(<<"9", "4">>), Missing, Text(<<"1", ".", "5">>),
            Repeated(AsciiDigit(0), MaxStrDigits + 1)}

\* The fields of the line of test_parse_line.
TestFields ==
    << Text(<<"1", "9", "8", "5", "0", "1", "0", "1">>), Text(<<"-", "2", "2">>),
       Text(<<"-", "1", "2", "8">>), Text(<<"9", "4">>) >>

\* The field choices that differ from the test's line in at most
\* MaxOddFields fields.
NearChoices ==
    {f \in FieldChoices :
        Cardinality({i \in 1..4 : f[i] # TestFields[i]}) <= MaxOddFields}

\* The lines _parse_line is called with: lines of four fields, and lines of
\* three, five, one and no field.
ParseInputs ==
    {Line4(f[1], f[2], f[3], f[4]) : f \in NearChoices}
    \cup
    { Text(<<"1", "9", "8", "5", "0", "1", "0", "1", "\t", "-", "2", "2", "\t", "-", "1", "2", "8">>),
      Text(<<"1", "9", "8", "5", "0", "1", "0", "1", "\t", "-", "2", "2", "\t", "-", "1", "2", "8", "\t", "9", "4", "\t", "0">>),
      Text(<<"1", "9", "8", "5", "0", "1", "0", "1">>),
      <<>> }

\* ------------------------------------------------------------------ state
VARIABLES
    weather_data,   \* the weather_data table: its committed rows, in id order
    weather_stats,  \* the weather_stats table: its committed rows, in id order
    ing,            \* the ingestion run: its position, locals, counters, session
    calc,           \* the aggregation run: its position, locals, counters
    obs,            \* what the run has read and handed over so far (history)
    hist,           \* the tables as the last calculate_all_stats left them, and
                    \* weather_data as the last one found it (history)
    peer,           \* the ingestion run and the aggregation run of a second
                    \* process, while this one runs
    call,           \* the last call of _parse_line from outside: arguments, outcome
    http,           \* the GET /weather request at hand: arguments, response
    env             \* what is left of the environment's budgets

vars == <<weather_data, weather_stats, ing, calc, obs, hist, peer, call, http, env>>

\* What an ingestion run leaves alone, and what an aggregation run does.
aggVars == <<weather_stats, calc, hist, peer, call, http>>
ingVars == <<weather_data, ing, obs, peer, call, http>>

ZeroStats == [files_processed |-> 0, records_ingested |-> 0,
              records_skipped |-> 0, errors |-> 0]

\* A process that has not constructed its WeatherDataIngester yet.
IdleIngester ==
    [pc |-> "idle", batch_size |-> 1, files |-> <<>>, fidx |-> 1,
     batch |-> <<>>, at |-> "loop", idx |-> 1, line_count |-> 0,
     stats |-> ZeroStats, needs_rollback |-> FALSE]

\* History of the run: whether its directory exists, the table when it
\* started, the number of records parsed, of lines that failed to parse, of
\* files that could not be opened or read and of storage failures so far;
\* and of the file it is at or was last at: the counters when it was opened,
\* the last line read, the records parsed, the batches handed to
\* _process_batch and how _ingest_file ended.
ZeroObs ==
    [exists |-> TRUE, before |-> <<>>, n_parsed |-> 0, n_bad |-> 0,
     n_io |-> 0, n_faults |-> 0, stats0 |-> ZeroStats, line |-> <<>>,
     parsed |-> <<>>, handed |-> <<>>, ended |-> "no"]

\* _parse_line has not been called from outside.
NoCall == [line |-> <<>>, station_id |-> "", raised |-> FALSE, result |-> <<>>]

\* ----------------------------------------------------------- the database
Key(rec) == <<rec.station_id, rec.date>>

KeysOf(rows) == {Key(rows[k]) : k \in 1..Len(rows)}

\* Mutant: the table has no uniqueness constraint.
UniqueViolationOff(table, rec) == FALSE

\* uq_station_date: inserting rec into table violates the constraint
UniqueViolation(table, rec) == Key(rec) \in KeysOf(table)

\* Mutant: only the rows of the table count, not the batch's own records.
BulkViolationStoredOnly(table, batch) ==
    \E k \in 1..Len(batch) : UniqueViolation(table, batch[k])

\* The bulk INSERT of a batch hits uq_station_date: on a row of the table or
\* on an earlier record of the same batch.
BulkViolation(table, batch) ==
    \E k \in 1..Len(batch) :
        UniqueViolation(table \o SubSeq(batch, 1, k - 1), batch[k])

\* ----------------------------------------------- WeatherDataIngester.stats
Bump(stats, counter, n) == [stats EXCEPT ![counter] = @ + n]

\* ingest_from_directory, line 37: _ingest_file returned
FileReturned(st) ==
    [st EXCEPT !.stats = Bump(@, "files_processed", 1),
               !.fidx = @ + 1, !.pc = "next_file", !.batch = <<>>]

\* Mutant: the handler ends the loop over the files.
FileRaisedStops(st) ==
    [st EXCEPT !.stats = Bump(@, "errors", 1),
               !.fidx = Len(st.files) + 1, !.pc = "next_file", !.batch = <<>>]

\* ingest_from_directory, lines 38-40: _ingest_file raised
FileRaised(st) ==
    [st EXCEPT !.stats = Bump(@, "errors", 1),
               !.fidx = @ + 1, !.pc = "next_file", !.batch = <<>>]

\* _ingest_file after _process_batch returned: line 71 inside the loop,
\* line 80 after it
BatchReturned(st) ==
    IF st.at = "loop"
    THEN [st EXCEPT !.batch = <<>>, !.pc = "reading"]
    ELSE FileReturned(st)

\* Mutant: the exception of _process_batch leaves ingest_from_directory.
BatchRaisedEscapes(st) == [st EXCEPT !.pc = "raised"]

\* _ingest_file after _process_batch raised: inside the loop the handler of
\* lines 73-75 takes it and line 71 is skipped, after the loop it leaves
\* _ingest_file
BatchRaised(st) ==
    IF st.at = "loop"
    THEN [st EXCEPT !.stats = Bump(@, "errors", 1), !.pc = "reading"]
    ELSE FileRaised(st)

\* ------------------------------------------------------------- operations
\* The states db.session can be in when a run starts, as needs_rollback:
\* the run is the first of a new process (FALSE), or it follows, in its
\* process, a run that has ended, and finds the session as that run left
\* it: no code rolls back a session whose flush has failed.
Sessions ==
    {FALSE}
    \cup (IF ing.pc \in {"idle", "done", "raised"} THEN {ing.needs_rollback} ELSE {})
    \cup (IF calc.pc \in {"idle", "done", "raised"} THEN {calc.needs_rollback} ELSE {})

\* WeatherDataIngester(batch_size).ingest_from_directory(data_directory) up
\* to the loop over the files, on a session in the state given.
StartRun(exists, files, batch_size, needs_rollback) ==
    /\ ing.pc \in {"idle", "done", "raised"}
    /\ needs_rollback \in Sessions
    /\ env.runs > 0
    /\ env' = [env EXCEPT !.runs = @ - 1]
    /\ ing' = IF exists
              THEN [IdleIngester EXCEPT !.pc = "next_file", !.files = files,
                                        !.batch_size = batch_size,
                                        !.needs_rollback = needs_rollback]
              ELSE [IdleIngester EXCEPT !.pc = "raised", !.batch_size = batch_size,
                                        !.needs_rollback = needs_rollback]
    /\ obs' = [ZeroObs EXCEPT !.before = weather_data, !.exists = exists]
    /\ UNCHANGED weather_data
    /\ UNCHANGED aggVars

\* The loop over the files is exhausted: the run returns its counters.
Return ==
    /\ ing.pc = "next_file"
    /\ ing.fidx > Len(ing.files)
    /\ ing' = [ing EXCEPT !.pc = "done"]
    /\ UNCHANGED <<weather_data, obs, env>>
    /\ UNCHANGED aggVars

\* _ingest_file, lines 52-57: the next file is opened.
OpenFile ==
    /\ ing.pc = "next_file"
    /\ ing.fidx <= Len(ing.files)
    /\ ing' = [ing EXCEPT !.pc = "reading", !.batch = <<>>, !.line_count = 0]
    /\ obs' = [obs EXCEPT !.parsed = <<>>, !.handed = <<>>, !.line = <<>>,
                          !.stats0 = ing.stats, !.ended = "no"]
    /\ UNCHANGED <<weather_data, env>>
    /\ UNCHANGED aggVars

\* open() raises: the file cannot be opened.
OpenFails ==
    /\ ing.pc = "next_file"
    /\ ing.fidx <= Len(ing.files)
    /\ env.faults > 0
    /\ env' = [env EXCEPT !.faults = @ - 1]
    /\ ing' = FileRaised(ing)
    /\ obs' = [obs EXCEPT !.parsed = <<>>, !.handed = <<>>, !.line = <<>>,
                          !.stats0 = ing.stats, !.n_io = @ + 1,
                          !.ended = "raised"]
    /\ UNCHANGED weather_data
    /\ UNCHANGED aggVars

\* Reading the next line raises (for line in file): the file cannot be read.
ReadFails ==
    /\ ing.pc = "reading"
    /\ env.faults > 0
    /\ env' = [env EXCEPT !.faults = @ - 1]
    /\ ing' = FileRaised(ing)
    /\ obs' = [obs EXCEPT !.n_io = @ + 1, !.ended = "raised"]
    /\ UNCHANGED weather_data
    /\ UNCHANGED aggVars

\* Mutant: the batch is flushed one record late.
BatchFullLate(batch, batch_size) == Len(batch) > batch_size

\* _ingest_file, line 69: the batch is due
BatchFull(batch, batch_size) == Len(batch) >= batch_size

\* Mutant: a line that fails to parse ends the file.
ParseFailedEndsFile(st) == FileRaised(st)

\* _ingest_file, lines 73-75: _parse_line raised
ParseFailed(st) == [st EXCEPT !.stats = Bump(@, "errors", 1)]

\* One turn of the loop of _ingest_file, lines 58-75, up to the call of
\* _process_batch.
ReadLine(raw) ==
    /\ ing.pc = "reading"
    /\ env.lines > 0
    /\ env' = [env EXCEPT !.lines = @ - 1]
    /\ LET line == Strip(raw)
           station_id == ing.files[ing.fidx]
       IN  IF line = <<>>
           THEN /\ UNCHANGED ing
                /\ obs' = [obs EXCEPT !.line = raw]
           ELSE IF ParseRaises(line)
           THEN /\ ing' = ParseFailed(ing)
                /\ obs' = [obs EXCEPT !.line = raw, !.n_bad = @ + 1]
           ELSE LET record == ParseLine(line, station_id)
                    batch == Append(ing.batch, record)
                    full == BatchFull(batch, ing.batch_size)
                IN  /\ ing' = [ing EXCEPT !.batch = batch,
                                          !.line_count = @ + 1,
                                          !.pc = IF full THEN "bulk" ELSE "reading",
                                          !.at = "loop"]
                    /\ obs' = [obs EXCEPT !.line = raw,
                                          !.parsed = Append(@, record),
                                          !.n_parsed = @ + 1,
                                          !.handed = IF full THEN Append(@, batch) ELSE @]
    /\ UNCHANGED weather_data
    /\ UNCHANGED aggVars

\* The file is exhausted: lines 77-80.
EndOfFile ==
    /\ ing.pc = "reading"
    /\ IF ing.batch # <<>>
       THEN /\ ing' = [ing EXCEPT !.pc = "bulk", !.at = "final"]
            /\ obs' = [obs EXCEPT !.handed = Append(@, ing.batch)]
       ELSE /\ ing' = FileReturned(ing)
            /\ obs' = [obs EXCEPT !.ended = "returned"]
    /\ UNCHANGED <<weather_data, env>>
    /\ UNCHANGED aggVars

\* How _ingest_file has ended, if it has, once st is the run's state.
Ended(st, how) == IF st.pc = "next_file" THEN how ELSE "no"

\* Mutant: a committed batch is counted as one record.
BulkCommitCountsOne ==
    /\ ing.pc = "bulk"
    /\ ~ing.needs_rollback
    /\ ~BulkViolation(weather_data, ing.batch)
    /\ weather_data' = weather_data \o ing.batch
    /\ ing' = BatchReturned([ing EXCEPT !.stats = Bump(@, "records_ingested", 1)])
    /\ obs' = [obs EXCEPT !.ended = Ended(ing', "returned")]
    /\ UNCHANGED env
    /\ UNCHANGED aggVars

\* _process_batch, lines 107-110: the bulk insert commits.
BulkCommit ==
    /\ ing.pc = "bulk"
    /\ ~ing.needs_rollback
    /\ ~BulkViolation(weather_data, ing.batch)
    /\ weather_data' = weather_data \o ing.batch
    /\ ing' = BatchReturned([ing EXCEPT
                  !.stats = Bump(@, "records_ingested", Len(ing.batch))])
    /\ obs' = [obs EXCEPT !.ended = Ended(ing', "returned")]
    /\ UNCHANGED env
    /\ UNCHANGED aggVars

\* Mutant: no rollback, the rows inserted before the conflict stay.
BulkConflictKeepsRows ==
    /\ ing.pc = "bulk"
    /\ ~ing.needs_rollback
    /\ BulkViolation(weather_data, ing.batch)
    /\ LET first == CHOOSE k \in 1..Len(ing.batch) :
                /\ UniqueViolation(weather_data \o SubSeq(ing.batch, 1, k - 1), ing.batch[k])
                /\ \A j \in 1..(k - 1) :
                       ~UniqueViolation(weather_data \o SubSeq(ing.batch, 1, j - 1), ing.batch[j])
       IN  weather_data' = weather_data \o SubSeq(ing.batch, 1, first - 1)
    /\ ing' = [ing EXCEPT !.pc = "indiv", !.idx = 1]
    /\ UNCHANGED <<obs, env>>
    /\ UNCHANGED aggVars

\* _process_batch, lines 111-113: the bulk insert raises IntegrityError, the
\* transaction is rolled back and the per-record loop starts.
BulkConflict ==
    /\ ing.pc = "bulk"
    /\ ~ing.needs_rollback
    /\ BulkViolation(weather_data, ing.batch)
    /\ ing' = [ing EXCEPT !.pc = "indiv", !.idx = 1]
    /\ UNCHANGED <<weather_data, obs, env>>
    /\ UNCHANGED aggVars

\* Mutant: the failure undoes the batches the run has committed.
StorageFailsUndoesRun ==
    /\ ing.pc \in {"bulk", "indiv"}
    /\ IF ing.needs_rollback
       THEN UNCHANGED env
       ELSE /\ env.faults > 0
            /\ env' = [env EXCEPT !.faults = @ - 1]
    /\ ing' = BatchRaised([ing EXCEPT !.needs_rollback = TRUE])
    /\ obs' = [obs EXCEPT !.n_faults = @ + 1, !.ended = Ended(ing', "raised")]
    /\ weather_data' = obs.before
    /\ UNCHANGED aggVars

\* Mutant: a storage failure is counted as a skipped duplicate.
StorageFailsAsSkip ==
    /\ ing.pc \in {"bulk", "indiv"}
    /\ IF ing.needs_rollback
       THEN UNCHANGED env
       ELSE /\ env.faults > 0
            /\ env' = [env EXCEPT !.faults = @ - 1]
    /\ ing' = [BatchRaised([ing EXCEPT !.needs_rollback = TRUE])
                  EXCEPT !.stats = Bump(ing.stats, "records_skipped", 1)]
    /\ obs' = [obs EXCEPT !.n_faults = @ + 1, !.ended = Ended(ing', "raised")]
    /\ UNCHANGED weather_data
    /\ UNCHANGED aggVars

\* The session raises something that is not IntegrityError: the storage
\* fails under the flush, or an earlier failed flush was never rolled back.
\* Neither handler of _process_batch and _process_individually takes it, and
\* nothing rolls the session back.
StorageFails ==
    /\ ing.pc \in {"bulk", "indiv"}
    /\ IF ing.needs_rollback
       THEN UNCHANGED env
       ELSE /\ env.faults > 0
            /\ env' = [env EXCEPT !.faults = @ - 1]
    /\ ing' = BatchRaised([ing EXCEPT !.needs_rollback = TRUE])
    /\ obs' = [obs EXCEPT !.n_faults = @ + 1, !.ended = Ended(ing', "raised")]
    /\ UNCHANGED weather_data
    /\ UNCHANGED aggVars

\* After the transaction of one record of _process_individually: the loop
\* goes to the next record, or _process_batch returns.
RecordDone(st) ==
    IF st.idx < Len(st.batch)
    THEN [st EXCEPT !.idx = @ + 1]
    ELSE BatchReturned(st)

\* _process_individually, lines 117-120: the record's insert commits.
RecordCommit ==
    /\ ing.pc = "indiv"
    /\ ~UniqueViolation(weather_data, ing.batch[ing.idx])
    /\ weather_data' = Append(weather_data, ing.batch[ing.idx])
    /\ ing' = RecordDone([ing EXCEPT !.stats = Bump(@, "records_ingested", 1)])
    /\ obs' = [obs EXCEPT !.ended = Ended(ing', "returned")]
    /\ UNCHANGED env
    /\ UNCHANGED aggVars

\* Mutant: the record replaces the row of its key, and is counted as skipped.
RecordConflictOverwrites ==
    /\ ing.pc = "indiv"
    /\ UniqueViolation(weather_data, ing.batch[ing.idx])
    /\ weather_data' =
           [k \in 1..Len(weather_data) |->
               IF Key(weather_data[k]) = Key(ing.batch[ing.idx])
               THEN ing.batch[ing.idx] ELSE weather_data[k]]
    /\ ing' = RecordDone([ing EXCEPT !.stats = Bump(@, "records_skipped", 1)])
    /\ obs' = [obs EXCEPT !.ended = Ended(ing', "returned")]
    /\ UNCHANGED env
    /\ UNCHANGED aggVars

\* Mutant: the handler counts the conflict as an error.
RecordConflictAsError ==
    /\ ing.pc = "indiv"
    /\ UniqueViolation(weather_data, ing.batch[ing.idx])
    /\ ing' = RecordDone([ing EXCEPT !.stats = Bump(@, "errors", 1)])
    /\ obs' = [obs EXCEPT !.ended = Ended(ing', "returned")]
    /\ UNCHANGED <<weather_data, env>>
    /\ UNCHANGED aggVars

\* _process_individually, lines 121-123: the record's insert raises
\* IntegrityError and is rolled back.
RecordConflict ==
    /\ ing.pc = "indiv"
    /\ UniqueViolation(weather_data, ing.batch[ing.idx])
    /\ ing' = RecordDone([ing EXCEPT !.stats = Bump(@, "records_skipped", 1)])
    /\ obs' = [obs EXCEPT !.ended = Ended(ing', "returned")]
    /\ UNCHANGED <<weather_data, env>>
    /\ UNCHANGED aggVars

\* ------------------------------------------------- WeatherStatsCalculator

\* No calculate_all_stats has returned yet.
ZeroHist ==
    [complete |-> FALSE, weather_data |-> <<>>, weather_stats |-> <<>>,
     started |-> <<>>]

\* A process that has not constructed its WeatherStatsCalculator yet.
IdleCalculator ==
    [pc |-> "idle", mode |-> "all", station_years |-> <<>>, gidx |-> 1,
     stats |-> [stations_processed |-> 0, years_processed |-> 0,
                stats_calculated |-> 0, errors |-> 0],
     avg_max_temp |-> None, avg_min_temp |-> None,
     total_precipitation |-> None, existing_stat |-> 0,
     needs_rollback |-> FALSE]

\* A second process that has constructed neither its WeatherDataIngester
\* nor its WeatherStatsCalculator yet.
IdlePeer == [ing |-> IdleIngester, obs |-> ZeroObs, calc |-> IdleCalculator]

WeatherStats(station_id, year, avg_max_temp, avg_min_temp, total_precipitation) ==
    [station_id |-> station_id, year |-> year, avg_max_temp |-> avg_max_temp,
     avg_min_temp |-> avg_min_temp, total_precipitation |-> total_precipitation]

\* func.extract('year', WeatherData.date)
Year(date) == date[1]

RECURSIVE GCD(_, _)
GCD(a, b) == IF b = 0 THEN a ELSE GCD(b, a % b)

\* The float n / d, d > 0.
Float(n, d) ==
    LET g == GCD(IF n < 0 THEN -n ELSE n, d) IN <<n \div g, d \div g>>

RECURSIVE Sum(_)
Sum(values) == IF values = <<>> THEN 0 ELSE Head(values) + Sum(Tail(values))

\* The distinct elements of a sequence.
Range(seq) == {seq[k] : k \in 1..Len(seq)}

\* The orders in which a query without ORDER BY can return distinct rows.
Orders(S) ==
    {f \in [1..Cardinality(S) -> S] : \A j, k \in 1..Cardinality(S) : f[j] = f[k] => j = k}

\* calculate_all_stats, lines 23-26: the distinct (station_id, year) pairs
StationYears(table) == {<<table[k].station_id, Year(table[k].date)>> : k \in 1..Len(table)}

\* Mutant: the years of every station.
YearsOfAnyStation(table, station_id) ==
    {Year(table[k].date) : k \in 1..Len(table)}

\* calculate_station_stats, lines 55-57: the distinct years of the station
YearsOf(table, station_id) ==
    {Year(table[k].date) : k \in {j \in 1..Len(table) : table[j].station_id = station_id}}

\* _calculate_station_year_stats, lines 71-76: the rows of the group
Query(table, station_id, year) ==
    SelectSeq(table, LAMBDA r : r.station_id = station_id /\ Year(r.date) = year)

\* Mutant: a row with the sentinel in any column is left out of every column.
FilterWholeRows(rows, column) ==
    SelectSeq(rows, LAMBDA r : /\ r.max_temp # Sentinel
                               /\ r.min_temp # Sentinel
                               /\ r.precipitation # Sentinel)

\* query.filter(WeatherData.<column> != -9999)
Filter(rows, column) == SelectSeq(rows, LAMBDA r : r[column] # Sentinel)

\* .with_entities(WeatherData.<column>).all()
Entities(rows, column) == [k \in 1..Len(rows) |-> rows[k][column]]

\* Mutant: without values the average is 0.
AvgTempZero(temps) ==
    IF temps = <<>> THEN <<0, 1>> ELSE Float(Sum(temps), Len(temps) * 10)

\* lines 84-85 and 88-89: sum / len / 10.0, None without values
AvgTemp(temps) ==
    IF temps = <<>> THEN None ELSE Float(Sum(temps), Len(temps) * 10)

\* Mutant: the sum is divided as the temperatures are.
TotalPrecipitationInTenths(precipitations) ==
    IF precipitations = <<>> THEN None ELSE Float(Sum(precipitations), 10)

\* lines 92-93: sum / 100.0, None without values
TotalPrecipitation(precipitations) ==
    IF precipitations = <<>> THEN None ELSE Float(Sum(precipitations), 100)

\* lines 96-99: the id of the first weather_stats row of the group, 0 for None
ExistingStat(table, station_id, year) ==
    IF \E k \in 1..Len(table) : table[k].station_id = station_id /\ table[k].year = year
    THEN CHOOSE k \in 1..Len(table) :
             /\ table[k].station_id = station_id /\ table[k].year = year
             /\ \A j \in 1..(k - 1) :
                    ~(table[j].station_id = station_id /\ table[j].year = year)
    ELSE 0

\* run_stats_calculation(): a new calculator, calculate_all_stats up to its
\* loop, lines 20-30, on a session that needs no rollback; the pairs come
\* in an order the database chooses.
StartAll(station_years) ==
    /\ calc.pc \in {"idle", "done", "raised"}
    /\ env.calcs > 0
    /\ env' = [env EXCEPT !.calcs = @ - 1]
    /\ station_years \in Orders(StationYears(weather_data))
    /\ calc' = [IdleCalculator EXCEPT !.pc = "group", !.mode = "all",
                                      !.station_years = station_years]
    /\ hist' = [hist EXCEPT !.started = weather_data]
    /\ UNCHANGED <<weather_stats, ingVars>>

\* WeatherStatsCalculator().calculate_station_stats(station_id) up to its
\* loop, lines 53-59, on a session that needs no rollback.
StartStation(station_id, years) ==
    /\ calc.pc \in {"idle", "done", "raised"}
    /\ env.calcs > 0
    /\ env' = [env EXCEPT !.calcs = @ - 1]
    /\ years \in Orders(YearsOf(weather_data, station_id))
    /\ calc' = [IdleCalculator EXCEPT
                   !.pc = "group", !.mode = "station",
                   !.station_years = [k \in 1..Len(years) |-> <<station_id, years[k]>>]]
    /\ UNCHANGED <<weather_stats, ingVars, hist>>

\* The query that enumerates the groups raises, outside every try, and the
\* public function with it: the run follows, in its process, a run that
\* left the session in need of a rollback (PendingRollbackError), or the
\* storage fails under the query, and the database has aborted the
\* transaction or has not.
EnumerationRaises(mode, aborted) ==
    /\ calc.pc \in {"idle", "done", "raised"}
    /\ env.calcs > 0
    /\ \/ /\ TRUE \in Sessions
          /\ aborted
          /\ env' = [env EXCEPT !.calcs = @ - 1]
       \/ /\ env.faults > 0
          /\ env' = [env EXCEPT !.calcs = @ - 1, !.faults = @ - 1]
    /\ calc' = [IdleCalculator EXCEPT !.pc = "raised", !.mode = mode,
                                      !.needs_rollback = aborted]
    /\ UNCHANGED <<weather_stats, ingVars, hist>>

\* run_stats_calculation() raises at lines 23-26.
StartAllRaises(aborted) == EnumerationRaises("all", aborted)

\* calculate_station_stats(station_id) raises at lines 55-57.
StartStationRaises(station_id, aborted) ==
    /\ station_id \in Stations
    /\ EnumerationRaises("station", aborted)

\* _calculate_station_year_stats, lines 71-85: the query of max_temp
QueryMaxTemps ==
    /\ calc.pc = "group"
    /\ calc.gidx <= Len(calc.station_years)
    /\ ~calc.needs_rollback
    /\ LET station_id == calc.station_years[calc.gidx][1]
           year == calc.station_years[calc.gidx][2]
           query == Query(weather_data, station_id, year)
           max_temps == Entities(Filter(query, "max_temp"), "max_temp")
       IN  calc' = [calc EXCEPT !.pc = "min_temps",
                                !.avg_max_temp = AvgTemp(max_temps),
                                !.avg_min_temp = None,
                                !.total_precipitation = None]
    /\ UNCHANGED <<weather_stats, ingVars, hist, env>>

\* lines 87-89: the query of min_temp
QueryMinTemps ==
    /\ calc.pc = "min_temps"
    /\ LET station_id == calc.station_years[calc.gidx][1]
           year == calc.station_years[calc.gidx][2]
           query == Query(weather_data, station_id, year)
           min_temps == Entities(Filter(query, "min_temp"), "min_temp")
       IN  calc' = [calc EXCEPT !.pc = "precipitations",
                                !.avg_min_temp = AvgTemp(min_temps)]
    /\ UNCHANGED <<weather_stats, ingVars, hist, env>>

\* lines 91-93: the query of precipitation
QueryPrecipitations ==
    /\ calc.pc = "precipitations"
    /\ LET station_id == calc.station_years[calc.gidx][1]
           year == calc.station_years[calc.gidx][2]
           query == Query(weather_data, station_id, year)
           precipitations == Entities(Filter(query, "precipitation"), "precipitation")
       IN  calc' = [calc EXCEPT !.pc = "existing_stat",
                                !.total_precipitation = TotalPrecipitation(precipitations)]
    /\ UNCHANGED <<weather_stats, ingVars, hist, env>>

\* lines 96-99: the query of the group's weather_stats row
QueryExistingStat ==
    /\ calc.pc = "existing_stat"
    /\ LET station_id == calc.station_years[calc.gidx][1]
           year == calc.station_years[calc.gidx][2]
       IN  calc' = [calc EXCEPT !.pc = "commit",
                                !.existing_stat = ExistingStat(weather_stats, station_id, year)]
    /\ UNCHANGED <<weather_stats, ingVars, hist, env>>

\* Mutant: the values are committed on a new row next to the row found.
UpdateStatAppends ==
    /\ calc.pc = "commit"
    /\ calc.existing_stat # 0
    /\ weather_stats' = Append(weather_stats,
           WeatherStats(calc.station_years[calc.gidx][1],
                        calc.station_years[calc.gidx][2], calc.avg_max_temp,
                        calc.avg_min_temp, calc.total_precipitation))
    /\ calc' = [calc EXCEPT !.pc = "group", !.gidx = @ + 1,
                            !.stats.stats_calculated = @ + 1]
    /\ UNCHANGED <<ingVars, hist, env>>

\* Mutant: the row found loses its values.
UpdateStatClears ==
    /\ calc.pc = "commit"
    /\ calc.existing_stat # 0
    /\ weather_stats' = [weather_stats EXCEPT ![calc.existing_stat] =
                            [@ EXCEPT !.avg_max_temp = None,
                                      !.avg_min_temp = None,
                                      !.total_precipitation = None]]
    /\ calc' = [calc EXCEPT !.pc = "group", !.gidx = @ + 1,
                            !.stats.stats_calculated = @ + 1]
    /\ UNCHANGED <<ingVars, hist, env>>

\* Mutant: the row found is left with the values it has.
UpdateStatKeeps ==
    /\ calc.pc = "commit"
    /\ calc.existing_stat # 0
    /\ calc' = [calc EXCEPT !.pc = "group", !.gidx = @ + 1,
                            !.stats.stats_calculated = @ + 1]
    /\ UNCHANGED <<weather_stats, ingVars, hist, env>>

\* lines 101-105 and 116: the row found is updated in place and committed;
\* then the caller counts the group (line 33 or 63).
UpdateStat ==
    /\ calc.pc = "commit"
    /\ calc.existing_stat # 0
    /\ weather_stats' = [weather_stats EXCEPT ![calc.existing_stat] =
                            [@ EXCEPT !.avg_max_temp = calc.avg_max_temp,
                                      !.avg_min_temp = calc.avg_min_temp,
                                      !.total_precipitation = calc.total_precipitation]]
    /\ calc' = [calc EXCEPT !.pc = "group", !.gidx = @ + 1,
                            !.stats.stats_calculated = @ + 1]
    /\ UNCHANGED <<ingVars, hist, env>>

\* uq_station_year: a row of the table has the station and the year
StatViolation(table, station_id, year) ==
    \E k \in 1..Len(table) :
        table[k].station_id = station_id /\ table[k].year = year

\* Mutant: the table has no uniqueness constraint, the row is added.
InsertStatUnchecked ==
    /\ calc.pc = "commit"
    /\ calc.existing_stat = 0
    /\ LET station_id == calc.station_years[calc.gidx][1]
           year == calc.station_years[calc.gidx][2]
       IN  weather_stats' = Append(weather_stats,
               WeatherStats(station_id, year, calc.avg_max_temp,
                            calc.avg_min_temp, calc.total_precipitation))
    /\ calc' = [calc EXCEPT !.pc = "group", !.gidx = @ + 1,
                            !.stats.stats_calculated = @ + 1]
    /\ UNCHANGED <<ingVars, hist, env>>

\* lines 106-116: no row was found, a new one is added and committed; then
\* the caller counts the group (line 33 or 63).
InsertStat ==
    /\ calc.pc = "commit"
    /\ calc.existing_stat = 0
    /\ ~StatViolation(weather_stats, calc.station_years[calc.gidx][1],
                      calc.station_years[calc.gidx][2])
    /\ LET station_id == calc.station_years[calc.gidx][1]
           year == calc.station_years[calc.gidx][2]
       IN  weather_stats' = Append(weather_stats,
               WeatherStats(station_id, year, calc.avg_max_temp,
                            calc.avg_min_temp, calc.total_precipitation))
    /\ calc' = [calc EXCEPT !.pc = "group", !.gidx = @ + 1,
                            !.stats.stats_calculated = @ + 1]
    /\ UNCHANGED <<ingVars, hist, env>>

\* calculate_all_stats, lines 34-36, and calculate_station_stats, lines
\* 64-66: _calculate_station_year_stats raised; the group is counted as an
\* error and the loop goes on, the session is not rolled back.
GroupRaised(st) ==
    [st EXCEPT !.pc = "group", !.gidx = @ + 1, !.stats.errors = @ + 1]

\* lines 106-116 with a row of the group committed by another process since
\* the lookup of lines 96-99: the INSERT violates uq_station_year, the
\* commit raises IntegrityError and the handler of the caller counts the
\* group as an error; the session is not rolled back.
InsertConflict ==
    /\ calc.pc = "commit"
    /\ calc.existing_stat = 0
    /\ StatViolation(weather_stats, calc.station_years[calc.gidx][1],
                     calc.station_years[calc.gidx][2])
    /\ calc' = GroupRaised([calc EXCEPT !.needs_rollback = TRUE])
    /\ UNCHANGED <<weather_stats, ingVars, hist, env>>

\* One of the four queries of _calculate_station_year_stats raises: the
\* storage fails under it. The database has aborted the transaction (and
\* refuses every statement until a rollback) or has not.
QueryFails(aborted) ==
    /\ \/ calc.pc = "group" /\ calc.gidx <= Len(calc.station_years)
       \/ calc.pc \in {"min_temps", "precipitations", "existing_stat"}
    /\ ~calc.needs_rollback
    /\ env.faults > 0
    /\ env' = [env EXCEPT !.faults = @ - 1]
    /\ calc' = GroupRaised([calc EXCEPT !.needs_rollback = aborted])
    /\ UNCHANGED <<weather_stats, ingVars, hist>>

\* line 116: the storage fails under the flush of the commit; the session's
\* transaction is left inactive until a rollback.
CommitFails ==
    /\ calc.pc = "commit"
    /\ env.faults > 0
    /\ env' = [env EXCEPT !.faults = @ - 1]
    /\ calc' = GroupRaised([calc EXCEPT !.needs_rollback = TRUE])
    /\ UNCHANGED <<weather_stats, ingVars, hist>>

\* lines 71-83: the first query of a group on a session whose failed
\* transaction was never rolled back raises PendingRollbackError.
PendingRollback ==
    /\ calc.pc = "group"
    /\ calc.gidx <= Len(calc.station_years)
    /\ calc.needs_rollback
    /\ calc' = GroupRaised(calc)
    /\ UNCHANGED <<weather_stats, ingVars, hist, env>>

\* calculate_all_stats, lines 38-50: the loop is exhausted
ReturnAll ==
    /\ calc.pc = "group"
    /\ calc.mode = "all"
    /\ calc.gidx > Len(calc.station_years)
    /\ LET stations == {pair[1] : pair \in Range(calc.station_years)}
           years == {pair[2] : pair \in Range(calc.station_years)}
       IN  calc' = [calc EXCEPT !.pc = "done",
                                !.stats.stations_processed = Cardinality(stations),
                                !.stats.years_processed = Cardinality(years)]
    /\ hist' = [hist EXCEPT !.complete = TRUE, !.weather_data = weather_data,
                            !.weather_stats = weather_stats]
    /\ UNCHANGED <<weather_stats, ingVars, env>>

\* calculate_station_stats, line 68: the loop is exhausted
ReturnStation ==
    /\ calc.pc = "group"
    /\ calc.mode = "station"
    /\ calc.gidx > Len(calc.station_years)
    /\ calc' = [calc EXCEPT !.pc = "done"]
    /\ UNCHANGED <<weather_stats, ingVars, hist, env>>

\* ------------------------------------------------------- GET /weather
\* api.py line 81: the cap of per_page
MaxPerPage == 1000

\* The per_page that paginate(error_out=False) uses for one it refuses.
DefaultPerPage == 20

\* The records of test_pagination: stations TEST000.. on one day.
TestRecords == 150

DigitNames == <<"0", "1", "2", "3", "4", "5", "6", "7", "8", "9">>

\* f'TEST{i:03d}'
TestStation(i) ==
    "TEST" \o DigitNames[(i \div 100) + 1] \o DigitNames[((i \div 10) % 10) + 1]
           \o DigitNames[(i % 10) + 1]

TestTable ==
    [k \in 1..TestRecords |->
        WeatherData(TestStation(k - 1), <<2023, 1, 1>>, 200, 100, 50)]

\* The station identifiers of the tables, in the order of the column's
\* collation.
Collation == <<"S1", "S2">> \o [k \in 1..TestRecords |-> TestStation(k - 1)]

StationRank ==
    [station_id \in {Collation[k] : k \in 1..Len(Collation)} |->
        CHOOSE k \in 1..Len(Collation) : Collation[k] = station_id]

\* date a < date b
DateLess(a, b) ==
    \/ a[1] < b[1]
    \/ a[1] = b[1] /\ a[2] < b[2]
    \/ a[1] = b[1] /\ a[2] = b[2] /\ a[3] < b[3]

\* ORDER BY date DESC, station_id: row a comes before row b
Before(a, b) ==
    \/ DateLess(b.date, a.date)
    \/ a.date = b.date /\ StationRank[a.station_id] < StationRank[b.station_id]

\* Two ordered sequences of rows as one: when the last row of the first
\* comes before the first row of the second they are joined as they are.
RECURSIVE MergeRows(_, _)
MergeRows(a, b) ==
    IF a = <<>> THEN b
    ELSE IF b = <<>> THEN a
    ELSE IF Before(a[Len(a)], b[1]) THEN a \o b
    ELSE IF Before(b[1], a[1]) THEN <<b[1]>> \o MergeRows(a, Tail(b))
    ELSE <<a[1]>> \o MergeRows(Tail(a), b)

\* query.order_by(WeatherData.date.desc(), WeatherData.station_id), line 109
RECURSIVE OrderBy(_)
OrderBy(rows) ==
    IF Len(rows) <= 1 THEN rows
    ELSE MergeRows(OrderBy(SubSeq(rows, 1, Len(rows) \div 2)),
                   OrderBy(SubSeq(rows, Len(rows) \div 2 + 1, Len(rows))))

\* datetime.strptime(text, '%Y<sep>%m<sep>%d').date(): <<year, month, day>>,
\* or None where it raises ValueError.
StrptimeSep(text, sep) ==
    LET n == Len(sep) IN
    IF Len(text) < 4 + n \/ ~AllDigits(SubSeq(text, 1, 4))
       \/ SubSeq(text, 5, 4 + n) # sep
    THEN None
    ELSE
        LET rest == SubSeq(text, 5 + n, Len(text))
            ms == MonthMatches(rest)
            DayPart(k) == SubSeq(rest, ms[k] + n + 1, Len(rest))
            good == {k \in 1..Len(ms) :
                        /\ Len(rest) >= ms[k] + n
                        /\ SubSeq(rest, ms[k] + 1, ms[k] + n) = sep
                        /\ DayMatches(DayPart(k)) # <<>>}
        IN  IF good = {} THEN None
            ELSE
                LET k == CHOOSE k \in good : \A j \in good : k <= j
                    dl == DayMatches(DayPart(k))[1]
                    y == DigitsVal(SubSeq(text, 1, 4))
                    mo == DigitsVal(SubSeq(rest, 1, ms[k]))
                    d == DigitsVal(Strip(SubSeq(DayPart(k), 1, dl)))
                IN  IF 4 + n + ms[k] + n + dl # Len(text) THEN None
                    ELSE IF y < 1 \/ d > DaysInMonth(y, mo) THEN None
                    ELSE <<y, mo, d>>

\* parse_date, lines 49-60: the date, or None where it raises ValueError;
\* it is called with non-empty strings only.
parse_date(date_string) ==
    IF StrptimeSep(date_string, <<MINUS>>) # None THEN StrptimeSep(date_string, <<MINUS>>)
    ELSE IF StrptimeSep(date_string, <<>>) # None THEN StrptimeSep(date_string, <<>>)
    ELSE StrptimeSep(date_string, <<SLASH>>)

\* A query argument that is given and is no date: lines 92, 99, 106
BadDate(arg) == arg # <<>> /\ parse_date(arg) = None

\* lines 83-107: the rows the filters leave, with their ids
Filtered(table, args) ==
    SelectSeq([k \in 1..Len(table) |-> [id |-> k] @@ table[k]],
              LAMBDA row :
                  /\ args.station_id # "" => row.station_id = args.station_id
                  /\ args.date # <<>> => row.date = parse_date(args.date)
                  /\ args.start_date # <<>> =>
                         ~DateLess(row.date, parse_date(args.start_date))
                  /\ args.end_date # <<>> =>
                         ~DateLess(parse_date(args.end_date), row.date))

\* WeatherData.max_temp_celsius, min_temp_celsius: models.py lines 26-32
Celsius(value) == IF value # Sentinel THEN Float(value, 10) ELSE None

\* WeatherData.precipitation_cm: models.py lines 34-36
Centimeters(value) == IF value # Sentinel THEN Float(value, 100) ELSE None

\* lines 121-130: the item of a record
Item(record) ==
    [id |-> record.id, station_id |-> record.station_id, date |-> record.date,
     max_temp_celsius |-> Celsius(record.max_temp),
     min_temp_celsius |-> Celsius(record.min_temp),
     precipitation_cm |-> Centimeters(record.precipitation)]

\* Mutant: the pages are numbered from 0.
PageItemsFromZero(rows, page, per_page) ==
    SubSeq(rows, page * per_page + 1,
           IF (page + 1) * per_page < Len(rows) THEN (page + 1) * per_page ELSE Len(rows))

\* query.limit(per_page).offset((page - 1) * per_page).all()
PageItems(rows, page, per_page) ==
    SubSeq(rows, (page - 1) * per_page + 1,
           IF page * per_page < Len(rows) THEN page * per_page ELSE Len(rows))

\* Pagination.pages
Pages(total, per_page) ==
    IF total = 0 \/ per_page = 0 THEN 0 ELSE (total + per_page - 1) \div per_page

\* A query argument that is not given is <<>>, one that is given is <<text>>.
NoArgs == [station_id |-> "", date |-> <<>>, start_date |-> <<>>,
           end_date |-> <<>>, page |-> <<>>, per_page |-> <<>>]

NoResponse == [status |-> 0, raised |-> FALSE, data |-> <<>>, page |-> 0,
               per_page |-> 0, total |-> 0, pages |-> 0]

\* No request is at hand; read and counted are the table as the two
\* statements of paginate found it.
NoRequest == [pc |-> "idle", args |-> NoArgs, response |-> NoResponse,
              read |-> <<>>, counted |-> <<>>]

\* The filters of the requests: none, a station, a day, a station and a
\* last day, a range, and a last day that is no date; the dates in the
\* three formats of parse_date.
Filters ==
    { NoArgs,
      [NoArgs EXCEPT !.station_id = "S1"],
      [NoArgs EXCEPT !.date = Text(<<"2", "0", "2", "3", "-", "0", "1", "-", "0", "2">>)],
      [NoArgs EXCEPT !.station_id = "S1",
                     !.end_date = Text(<<"2", "0", "2", "3", "/", "0", "1", "/", "0", "2">>)],
      [NoArgs EXCEPT !.start_date = D20230102,
                     !.end_date = Text(<<"2", "0", "2", "4", "-", "0", "1", "-", "0", "3">>)],
      [NoArgs EXCEPT !.end_date = Text(<<"2", "0", "2", "3", "-", "1", "3", "-", "0", "1">>)] }

\* The pages and sizes of the requests, as text: not given, integers,
\* an integer between blanks, and text that is no integer: letters, the
\* empty text, a fraction, an integer beside one of the separators U+001C
\* and U+001F, a one of MaxStrDigits + 1 digits.
PageArgs ==
    {<<>>} \cup {<<t>> : t \in {Text(<<"0">>), Text(<<"1">>), Text(<<"2">>),
                               Text(<<"a", "b", "c">>), <<>>, <<28>> \o Text(<<"1">>),
                               Repeated(AsciiDigit(1), MaxStrDigits + 1)}}

PerPageArgs ==
    {<<>>} \cup {<<t>> : t \in {Text(<<"-", "1">>), Text(<<"0">>), Text(<<"1">>),
                               Text(<<"\t", "2", " ">>), Text(<<"1", "0", "0", "1">>),
                               Text(<<"1", ".", "5">>), Text(<<"2">>) \o <<31>>}}

\* int(request.args.get(name, default)), lines 80-81: the argument raises
\* ValueError
BadInt(arg) == arg # <<>> /\ ~IsInt(arg[1])

\* The query arguments of the requests: the filters with the pages and
\* sizes; a page or size that is no integer comes with no filter or with
\* the last day that is no date.
RequestArgs ==
    {args \in {[f EXCEPT !.page = page, !.per_page = per_page] :
                  f \in Filters, page \in PageArgs, per_page \in PerPageArgs} :
        (BadInt(args.page) \/ BadInt(args.per_page))
            => args.station_id = "" /\ args.date = <<>> /\ args.start_date = <<>>}

\* The requests of test_pagination: pages of 50 of the whole table.
TestRequests ==
    {[NoArgs EXCEPT !.page = page, !.per_page = <<Text(<<"5", "0">>)>>] : page \in PageArgs}

\* line 80: int(request.args.get('page', 1))
PageOf(args) == IF args.page = <<>> THEN 1 ELSE IntOf(args.page[1])

\* line 81: min(int(request.args.get('per_page', 100)), 1000)
PerPageOf(args) ==
    LET per_page == IF args.per_page = <<>> THEN 100 ELSE IntOf(args.per_page[1])
    IN  IF per_page < MaxPerPage THEN per_page ELSE MaxPerPage

\* A client sends GET /weather with its query arguments: a first request,
\* or, after an answer, a request for another page of the same listing. The
\* table of test_pagination is asked as the test asks it.
Request(args) ==
    /\ \/ http.pc = "idle"
       \/ /\ http.pc = "sent"
          /\ args \in {[http.args EXCEPT !.page = page] : page \in PageArgs}
    /\ args \in IF Len(weather_data) >= TestRecords THEN TestRequests ELSE RequestArgs
    /\ http' = [NoRequest EXCEPT !.pc = "received", !.args = args]
    /\ UNCHANGED <<weather_data, weather_stats, ing, calc, obs, hist, peer, call, env>>

\* WeatherDataList.get, lines 74-116, up to the first statement of paginate:
\* ValueError out of get() for a page or per_page that is no integer (the
\* framework answers 500), 400 for an argument that is no date, else the
\* rows of the page of the filtered and ordered rows as the table holds them
\* now. paginate(error_out=False) takes a page below 1 as page 1 and a
\* per_page below 1 as DefaultPerPage; Flask-SQLAlchemy 2 (legacy) takes
\* per_page 0 as it is (no items, no pages) and counts no rows when page 1
\* is not full.
Get(legacy) ==
    /\ http.pc = "received"
    /\ IF BadInt(http.args.page) \/ BadInt(http.args.per_page)
       THEN http' = [http EXCEPT !.pc = "sent",
                                 !.response = [NoResponse EXCEPT !.status = 500,
                                                                 !.raised = TRUE]]
       ELSE IF \/ BadDate(http.args.date) \/ BadDate(http.args.start_date)
               \/ BadDate(http.args.end_date)
       THEN http' = [http EXCEPT !.pc = "sent",
                                 !.response = [NoResponse EXCEPT !.status = 400]]
       ELSE \E page \in {PageOf(http.args)}, per_page \in {PerPageOf(http.args)} :
            \E p \in {IF page < 1 THEN 1 ELSE page},
               n \in {IF per_page < 0 \/ (per_page = 0 /\ ~legacy)
                      THEN DefaultPerPage ELSE per_page} :
            \E items \in {PageItems(OrderBy(Filtered(weather_data, http.args)), p, n)} :
                IF legacy /\ p = 1 /\ Len(items) < n
                THEN http' = [http EXCEPT
                         !.pc = "sent",
                         !.read = weather_data,
                         !.counted = weather_data,
                         !.response = [status |-> 200, raised |-> FALSE,
                                       data |-> [k \in 1..Len(items) |-> Item(items[k])],
                                       page |-> p, per_page |-> n,
                                       total |-> Len(items),
                                       pages |-> Pages(Len(items), n)]]
                ELSE http' = [http EXCEPT
                         !.pc = "count",
                         !.read = weather_data,
                         !.response = [NoResponse EXCEPT
                                          !.data = [k \in 1..Len(items) |-> Item(items[k])],
                                          !.page = p, !.per_page = n]]
    /\ UNCHANGED <<weather_data, weather_stats, ing, calc, obs, hist, peer, call, env>>

\* The second statement of paginate, SELECT count(*) of the filtered rows
\* as the table holds them now, and lines 121-140: the answer.
Count ==
    /\ http.pc = "count"
    /\ \E total \in {Len(Filtered(weather_data, http.args))} :
           http' = [http EXCEPT
               !.pc = "sent",
               !.counted = weather_data,
               !.response = [@ EXCEPT !.status = 200, !.total = total,
                                      !.pages = Pages(total, http.response.per_page)]]
    /\ UNCHANGED <<weather_data, weather_stats, ing, calc, obs, hist, peer, call, env>>

\* lines 111-119: the storage fails under a statement of paginate; the
\* handler answers 500.
PaginateFails ==
    /\ \/ /\ http.pc = "received"
          /\ ~BadInt(http.args.page) /\ ~BadInt(http.args.per_page)
          /\ ~BadDate(http.args.date) /\ ~BadDate(http.args.start_date)
          /\ ~BadDate(http.args.end_date)
       \/ http.pc = "count"
    /\ env.faults > 0
    /\ env' = [env EXCEPT !.faults = @ - 1]
    /\ http' = [http EXCEPT !.pc = "sent",
                            !.response = [NoResponse EXCEPT !.status = 500]]
    /\ UNCHANGED <<weather_data, weather_stats, ing, calc, obs, hist, peer, call>>

\* WeatherDataIngester()._parse_line(line, station_id), called from outside
\* a run: it returns a record or raises ValueError, and touches nothing.
ParseCall(line, station_id) ==
    /\ call' = [line |-> line, station_id |-> station_id,
                raised |-> ParseRaises(line),
                result |-> IF ParseRaises(line) THEN <<>>
                           ELSE <<ParseLine(line, station_id)>>]
    /\ UNCHANGED <<weather_data, weather_stats, ing, calc, obs, hist, peer, http, env>>

\* The scheduler takes the processor from one ingestion process and gives
\* it to the other, between two transactions.
Switch ==
    /\ ing' = peer.ing
    /\ obs' = peer.obs
    /\ peer' = [peer EXCEPT !.ing = ing, !.obs = obs]
    /\ UNCHANGED <<weather_data, weather_stats, calc, hist, call, http, env>>

\* The scheduler takes the processor from one aggregation process and
\* gives it to the other, between two statements.
SwitchCalculator ==
    /\ calc' = peer.calc
    /\ peer' = [peer EXCEPT !.calc = calc]
    /\ UNCHANGED <<weather_data, weather_stats, ing, obs, hist, call, http, env>>

\* ---------------------------------------------------------- specification
Init ==
    /\ weather_data = <<>>
    /\ ing = IdleIngester
    /\ obs = ZeroObs
    /\ env = [lines |-> MaxLines, faults |-> MaxFaults, runs |-> MaxRuns,
              calcs |-> MaxCalcs]
    /\ weather_stats = <<>>
    /\ calc = IdleCalculator
    /\ hist = ZeroHist
    /\ peer = IdlePeer
    /\ call = NoCall
    /\ http = NoRequest

Next ==
    \/ \E exists \in BOOLEAN, files \in FileLists, batch_size \in BatchSizes,
          needs_rollback \in BOOLEAN :
           StartRun(exists, files, batch_size, needs_rollback)
    \/ Return
    \/ OpenFile
    \/ OpenFails
    \/ ReadFails
    \/ \E raw \in FilledLines : ReadLine(raw)
    \/ EndOfFile
    \/ BulkCommit
    \/ BulkConflict
    \/ StorageFails
    \/ RecordCommit
    \/ RecordConflict

Spec == Init /\ [][Next]_vars

\* One run over the file of one station, a file of lines of every kind:
\* blank, valid and malformed, in any order.
NextMixed ==
    \/ /\ ing.pc = "idle"
       /\ \E batch_size \in BatchSizes : StartRun(TRUE, <<"S1">>, batch_size, FALSE)
    \/ Return
    \/ OpenFile
    \/ \E raw \in FilledLines \cup {LineA2, LineBlank} : ReadLine(raw)
    \/ EndOfFile
    \/ BulkCommit
    \/ BulkConflict
    \/ RecordCommit
    \/ RecordConflict

SpecMixed == Init /\ [][NextMixed]_vars

\* Lines of one station's file: two with the same date and other values,
\* one with another date.
SharedLines == {LineA, LineA2, LineB}

\* Runs one after the other over the file of one station, a file in which
\* a date can come back with other values, in the same run and in a later
\* one; the storage can fail under an insert.
NextRepeats ==
    \/ \E batch_size \in BatchSizes, needs_rollback \in BOOLEAN :
           StartRun(TRUE, <<"S1">>, batch_size, needs_rollback)
    \/ Return
    \/ OpenFile
    \/ \E raw \in SharedLines : ReadLine(raw)
    \/ EndOfFile
    \/ BulkCommit
    \/ BulkConflict
    \/ StorageFails
    \/ RecordCommit
    \/ RecordConflict

SpecRepeats == Init /\ [][NextRepeats]_vars

\* The same runs over directories of one file at most, of lines with
\* distinct dates.
NextDistinct ==
    \/ \E exists \in BOOLEAN, files \in {f \in FileLists : Len(f) <= 1},
          batch_size \in BatchSizes, needs_rollback \in BOOLEAN :
           StartRun(exists, files, batch_size, needs_rollback)
    \/ Return
    \/ OpenFile
    \/ OpenFails
    \/ ReadFails
    \/ \E raw \in DistinctLines : ReadLine(raw)
    \/ EndOfFile
    \/ BulkCommit
    \/ BulkConflict
    \/ StorageFails
    \/ RecordCommit
    \/ RecordConflict

SpecDistinct == Init /\ [][NextDistinct]_vars

\* The rows of the tables the aggregation runs start from: the three days of
\* station S1 in 2023, one of them without max_temp; a day of S1 in 2024 with
\* no measurement at all; two days of S2 in 2023.
StoreRows ==
    << WeatherData("S1", <<2023, 1, 1>>, 100, -50, 25),
       WeatherData("S1", <<2023, 1, 2>>, 150, 0, 0),
       WeatherData("S1", <<2023, 1, 3>>, Sentinel, -100, 50),
       WeatherData("S1", <<2024, 1, 3>>, Sentinel, Sentinel, Sentinel),
       WeatherData("S2", <<2023, 1, 1>>, 100, -50, 25),
       WeatherData("S2", <<2023, 1, 2>>, Sentinel, -100, 50) >>

RECURSIVE Pick(_, _)
Pick(rows, ids) ==
    IF rows = <<>> THEN <<>>
    ELSE (IF Len(rows) \in ids THEN Pick(SubSeq(rows, 1, Len(rows) - 1), ids)
                                       \o <<rows[Len(rows)]>>
          ELSE Pick(SubSeq(rows, 1, Len(rows) - 1), ids))

\* The tables ingestion runs can have left.
Stores == {Pick(StoreRows, ids) : ids \in SUBSET (1..Len(StoreRows))}

\* Aggregation runs, one after the other, over a table that ingestion has
\* left and does not write any more.
InitAgg ==
    /\ weather_data \in Stores
    /\ weather_stats = <<>>
    /\ ing = IdleIngester
    /\ calc = IdleCalculator
    /\ obs = ZeroObs
    /\ hist = ZeroHist
    /\ peer = IdlePeer
    /\ call = NoCall
    /\ http = NoRequest
    /\ env = [lines |-> 0, faults |-> 0, runs |-> 0, calcs |-> MaxCalcs]

NextAgg ==
    \/ \E station_years \in Orders(StationYears(weather_data)) : StartAll(station_years)
    \/ \E station_id \in Stations :
           \E years \in Orders(YearsOf(weather_data, station_id)) :
               StartStation(station_id, years)
    \/ QueryMaxTemps
    \/ QueryMinTemps
    \/ QueryPrecipitations
    \/ QueryExistingStat
    \/ UpdateStat
    \/ InsertStat
    \/ ReturnAll
    \/ ReturnStation

SpecAgg == InitAgg /\ [][NextAgg]_vars

\* The tables the aggregation runs with storage failures start from: of no,
\* one, two and three groups.
FaultStores == {Pick(StoreRows, ids) : ids \in {{}, {1}, {1, 4}, {1, 4, 5}, {1, 2, 3, 4, 5, 6}}}

\* Aggregation runs under which the storage can fail.
InitAggFaults ==
    /\ weather_data \in FaultStores
    /\ weather_stats = <<>>
    /\ ing = IdleIngester
    /\ calc = IdleCalculator
    /\ obs = ZeroObs
    /\ hist = ZeroHist
    /\ peer = IdlePeer
    /\ call = NoCall
    /\ http = NoRequest
    /\ env = [lines |-> 0, faults |-> MaxFaults, runs |-> 0, calcs |-> MaxCalcs]

NextAggFaults ==
    \/ NextAgg
    \/ \E aborted \in BOOLEAN : StartAllRaises(aborted)
    \/ \E station_id \in Stations, aborted \in BOOLEAN :
           StartStationRaises(station_id, aborted)
    \/ \E aborted \in BOOLEAN : QueryFails(aborted)
    \/ CommitFails
    \/ PendingRollback

SpecAggFaults == InitAggFaults /\ [][NextAggFaults]_vars

\* Ingestion runs and aggregation runs one after the other, in any order:
\* no run starts while another is under way. The files hold valid lines, of
\* two years, one file a run; the storage can fail under an insert of the
\* ingestion and under the enumeration query or a commit of an aggregation.
NextPipeline ==
    \/ /\ calc.pc \in {"idle", "done", "raised"}
       /\ \E needs_rollback \in BOOLEAN :
              StartRun(TRUE, <<"S1">>, MaxBatch, needs_rollback)
    \/ Return
    \/ OpenFile
    \/ \E raw \in DistinctLines : ReadLine(raw)
    \/ EndOfFile
    \/ BulkCommit
    \/ BulkConflict
    \/ StorageFails
    \/ RecordCommit
    \/ RecordConflict
    \/ /\ ing.pc \in {"idle", "done", "raised"}
       /\ \E station_years \in Orders(StationYears(weather_data)) :
              StartAll(station_years)
    \/ /\ ing.pc \in {"idle", "done", "raised"}
       /\ \E aborted \in BOOLEAN : StartAllRaises(aborted)
    \/ QueryMaxTemps
    \/ QueryMinTemps
    \/ QueryPrecipitations
    \/ QueryExistingStat
    \/ UpdateStat
    \/ InsertStat
    \/ ReturnAll
    \/ CommitFails
    \/ PendingRollback

SpecPipeline == Init /\ [][NextPipeline]_vars

\* A call of _parse_line with a line of any kind; the method keeps nothing
\* from one call to the next, so a behaviour is one call.
NextParse ==
    /\ call = NoCall
    /\ \E line \in ParseInputs, station_id \in Stations : ParseCall(line, station_id)

SpecParse == Init /\ [][NextParse]_vars

\* The tables the listing is asked for: the empty one, tables of the rows of
\* two stations and two years, and the table of test_pagination.
ListStores ==
    {Pick(StoreRows, ids) : ids \in {{}, {1}, {1, 2, 3, 4}, 1..6}}
        \cup {TestTable}

InitList ==
    /\ weather_data \in ListStores
    /\ weather_stats = <<>>
    /\ ing = IdleIngester
    /\ calc = IdleCalculator
    /\ obs = ZeroObs
    /\ hist = ZeroHist
    /\ peer = IdlePeer
    /\ call = NoCall
    /\ http = NoRequest
    /\ env = [lines |-> MaxBatch, faults |-> MaxFaults, runs |-> MaxRuns, calcs |-> 0]

\* Requests to GET /weather, one at a time, while another process runs one
\* ingestion over a file of station S1 of up to one batch: its commits fall
\* before, between and after the two statements of a request. The storage
\* can fail under the statements of the request.
NextList ==
    \/ \E args \in RequestArgs \cup TestRequests : Request(args)
    \/ \E legacy \in BOOLEAN : Get(legacy)
    \/ Count
    \/ PaginateFails
    \/ /\ ing.pc = "idle"
       /\ StartRun(TRUE, <<"S1">>, MaxBatch, FALSE)
    \/ Return
    \/ OpenFile
    \/ ReadLine(LineB)
    \/ EndOfFile
    \/ BulkCommit
    \/ BulkConflict
    \/ RecordCommit
    \/ RecordConflict

SpecList == InitList /\ [][NextList]_vars

\* Two processes, each with one ingestion run over a file of station S1,
\* their transactions interleaved in any way. An insert that meets the open
\* transaction of the other process (the other has flushed its insert and
\* not yet committed) and finds the database locked for too long fails as
\* the storage does, and so does every later insert on that session.
NextTwoWriters ==
    \/ /\ ing.pc = "idle"
       /\ \E batch_size \in BatchSizes : StartRun(TRUE, <<"S1">>, batch_size, FALSE)
    \/ Return
    \/ OpenFile
    \/ \E raw \in SharedLines : ReadLine(raw)
    \/ EndOfFile
    \/ BulkCommit
    \/ BulkConflict
    \/ /\ ing.needs_rollback \/ peer.ing.pc \in {"bulk", "indiv"}
       /\ StorageFails
    \/ RecordCommit
    \/ RecordConflict
    \/ Switch

SpecTwoWriters == Init /\ [][NextTwoWriters]_vars

\* One ingestion run over a file of station S1 with valid lines of two
\* years and aggregation runs over the whole table, each a process of its
\* own: their steps interleave in any way, and an aggregation can start
\* before, while and after the ingestion runs; an insert or a commit that
\* finds the database locked by the other process for too long fails as
\* the storage does.
NextInterleaved ==
    \/ /\ ing.pc = "idle"
       /\ StartRun(TRUE, <<"S1">>, MaxBatch, FALSE)
    \/ Return
    \/ OpenFile
    \/ \E raw \in DistinctLines : ReadLine(raw)
    \/ EndOfFile
    \/ BulkCommit
    \/ BulkConflict
    \/ StorageFails
    \/ RecordCommit
    \/ RecordConflict
    \/ \E station_years \in Orders(StationYears(weather_data)) :
           StartAll(station_years)
    \/ QueryMaxTemps
    \/ QueryMinTemps
    \/ QueryPrecipitations
    \/ QueryExistingStat
    \/ UpdateStat
    \/ InsertStat
    \/ CommitFails
    \/ PendingRollback
    \/ ReturnAll

SpecInterleaved == Init /\ [][NextInterleaved]_vars

\* The tables two aggregation processes run over: of one, two and three
\* groups.
SharedStores == {Pick(StoreRows, ids) : ids \in {{1}, {1, 2, 3}, {1, 4}, {1, 4, 5}}}

InitTwoCalculators ==
    /\ weather_data \in SharedStores
    /\ weather_stats = <<>>
    /\ ing = IdleIngester
    /\ calc = IdleCalculator
    /\ obs = ZeroObs
    /\ hist = ZeroHist
    /\ peer = IdlePeer
    /\ call = NoCall
    /\ http = NoRequest
    /\ env = [lines |-> 0, faults |-> MaxFaults, runs |-> 0, calcs |-> MaxCalcs]

\* Two processes with whole aggregation runs over the same table at rest,
\* their statements interleaved in any way; a commit that finds the
\* database locked by the other process for too long fails as the storage
\* does.
NextTwoCalculators ==
    \/ \E station_years \in Orders(StationYears(weather_data)) :
           StartAll(station_years)
    \/ QueryMaxTemps
    \/ QueryMinTemps
    \/ QueryPrecipitations
    \/ QueryExistingStat
    \/ UpdateStat
    \/ InsertStat
    \/ InsertConflict
    \/ CommitFails
    \/ PendingRollback
    \/ ReturnAll
    \/ SwitchCalculator

SpecTwoCalculators == InitTwoCalculators /\ [][NextTwoCalculators]_vars

\* ==================================================================
\* Properties
\* ==================================================================
RECURSIVE Concat(_)
Concat(seqs) == IF seqs = <<>> THEN <<>> ELSE Head(seqs) \o Concat(Tail(seqs))

\* The step is the transaction of one record of the per-record loop and the
\* storage did not fail under it.
RecordStep == ing.pc = "indiv" /\ ~ing'.needs_rollback

\* The step is a bulk insert and the storage did not fail under it.
BulkStep == ing.pc = "bulk" /\ ~ing'.needs_rollback

\* The key of rec is on a row of the table.
Persisted(table, rec) ==
    \E k \in 1..Len(table) :
        table[k].station_id = rec.station_id /\ table[k].date = rec.date

\* The step adds one to the counter named and nothing to the other two
\* counters of records.
Counted(counter) ==
    \A c \in {"records_ingested", "records_skipped", "errors"} :
        ing'.stats[c] = ing.stats[c] + (IF c = counter THEN 1 ELSE 0)

\* The run has left the batch it was at: _process_batch has returned.
LeftBatch ==
    IF ing.at = "loop"
    THEN ing'.pc = "reading" /\ ing'.batch = <<>>
    ELSE ing'.pc = "next_file" /\ ing'.fidx = ing.fidx + 1

\* C1: the table holds at most one row per (station_id, date), whatever
\* runs, files, batch sizes, conflicts and failures came before.
C1_UniqueStationDate ==
    \A j, k \in 1..Len(weather_data) :
        (/\ weather_data[j].station_id = weather_data[k].station_id
         /\ weather_data[j].date = weather_data[k].date) => j = k

\* C1 witness: a second run has committed a new row next to the rows of the
\* first, after one of its records was rejected as a duplicate.
C1_Witness ==
    /\ obs.before # <<>>
    /\ Len(weather_data) > Len(obs.before)
    /\ ing.stats.records_skipped > 0

\* C2: the insert of a record whose key an earlier run persisted, when the
\* storage does not fail, counts the record as skipped and as nothing else,
\* leaves every row as it was and the key on exactly one row.
C2_DuplicateIsSkipped ==
    [][(RecordStep /\ Persisted(obs.before, ing.batch[ing.idx])) =>
          /\ Counted("records_skipped")
          /\ weather_data' = weather_data
          /\ Cardinality({k \in 1..Len(weather_data') :
                 /\ weather_data'[k].station_id = ing.batch[ing.idx].station_id
                 /\ weather_data'[k].date = ing.batch[ing.idx].date}) = 1]_vars

\* C2 witness: a run has skipped a record that carries other values than
\* the row an earlier run persisted under its key, and the row is as it was.
C2_Witness ==
    /\ ing.pc = "done"
    /\ ing.stats.records_skipped = 1
    /\ ing.stats.records_ingested = 0
    /\ ing.stats.errors = 0
    /\ obs.before # <<>>
    /\ weather_data = obs.before
    /\ \E k \in 1..Len(obs.parsed) :
           /\ Persisted(obs.before, obs.parsed[k])
           /\ \A j \in 1..Len(weather_data) : weather_data[j] # obs.parsed[k]

\* C3: a bulk insert that hits a uniqueness conflict leaves the table and
\* the counters as they were and starts the per-record loop at the first
\* record of the same batch; each transaction of the loop that the storage
\* does not fail handles the record the loop is at and no other: it appends
\* the record and counts it as ingested, or, its key being persisted, leaves
\* the table and counts it as skipped; then the loop is at the next record
\* of the same batch, and leaves the batch only after its last record.
C3_FallbackPerRecord ==
    [][/\ (BulkStep /\ BulkViolation(weather_data, ing.batch)) =>
              /\ weather_data' = weather_data
              /\ ing' = [ing EXCEPT !.pc = "indiv", !.idx = 1]
       /\ (ing'.pc = "indiv" /\ ing.pc # "indiv") =>
              (ing.pc = "bulk" /\ ing'.idx = 1 /\ weather_data' = weather_data)
       /\ RecordStep =>
              LET record == ing.batch[ing.idx] IN
              /\ IF Persisted(weather_data, record)
                 THEN /\ weather_data' = weather_data
                      /\ Counted("records_skipped")
                 ELSE /\ weather_data' = Append(weather_data, record)
                      /\ Counted("records_ingested")
              /\ IF ing.idx < Len(ing.batch)
                 THEN ing' = [ing EXCEPT !.stats = ing'.stats, !.idx = @ + 1]
                 ELSE LeftBatch]_vars

\* C3 witness: the per-record loop has gone through a batch of two records,
\* of which it ingested the first and skipped the second.
C3_Witness ==
    /\ obs.n_faults = 0
    /\ obs.before = <<>>
    /\ obs.handed # <<>>
    /\ Len(obs.handed[Len(obs.handed)]) = 2
    /\ ing.pc \in {"reading", "next_file"}
    /\ ing.stats.records_ingested = 1
    /\ ing.stats.records_skipped = 1
    /\ Len(weather_data) = 1

\* C4 (as claimed): a storage failure under the insert of one record of the
\* per-record loop adds one to errors and the loop goes on to the next
\* record of the batch, or, after the last one, the file goes on.
C4_FailureIsolatedToRecord ==
    [][(ing.pc = "indiv" /\ obs'.n_faults = obs.n_faults + 1) =>
          /\ Counted("errors")
          /\ IF ing.idx < Len(ing.batch)
             THEN /\ ing'.pc = "indiv"
                  /\ ing'.idx = ing.idx + 1
                  /\ ing'.batch = ing.batch
             ELSE LeftBatch]_vars

RECURSIVE SumLen(_)
SumLen(seqs) == IF seqs = <<>> THEN 0 ELSE Len(Head(seqs)) + SumLen(Tail(seqs))

\* C5 (as claimed): no parsed record is handed to the loader twice, and when
\* the run returns every parsed record has added exactly one to one of
\* records_ingested, records_skipped and errors (the other additions to
\* errors being one per malformed line and one per file that could not be
\* opened or read).
C5_ClassifiedExactlyOnce ==
    /\ SumLen(obs.handed) <= Len(obs.parsed)
    /\ ing.pc = "done" =>
           ing.stats.records_ingested + ing.stats.records_skipped + ing.stats.errors
               = obs.n_parsed + obs.n_bad + obs.n_io

\* C6: while a file is read, every batch handed to the loader holds exactly
\* batch_size records and the batches followed by the buffer are the
\* records parsed so far, in order; when the file has been read, with n
\* records parsed and batch size b, the loader was handed n \div b batches of
\* b records and then one of n % b records if that is not 0, together the
\* parsed records in file order; a file of b + 1 records whose bulk inserts
\* both commit adds b + 1 to records_ingested. (Runs without storage failure.)
C6_BatchesPartitionFile ==
    LET n == Len(obs.parsed)
        b == ing.batch_size
        q == n \div b
        r == n % b
    IN  /\ (ing.pc = "reading" /\ obs.n_faults = 0) =>
               /\ \A j \in 1..Len(obs.handed) : Len(obs.handed[j]) = b
               /\ Len(ing.batch) < b
               /\ Concat(obs.handed) \o ing.batch = obs.parsed
        /\ (obs.ended = "returned" /\ obs.n_faults = 0) =>
               /\ Len(obs.handed) = q + (IF r = 0 THEN 0 ELSE 1)
               /\ \A j \in 1..q : Len(obs.handed[j]) = b
               /\ r # 0 => Len(obs.handed[q + 1]) = r
               /\ Concat(obs.handed) = obs.parsed
               /\ (n = b + 1 /\ ing.stats.records_skipped = obs.stats0.records_skipped) =>
                      /\ Len(obs.handed) = 2
                      /\ Len(obs.handed[1]) = b
                      /\ Len(obs.handed[2]) = 1
                      /\ ing.stats.records_ingested = obs.stats0.records_ingested + b + 1

\* C6 witness: a file of three records read with batch size 2: two batches,
\* both committed in bulk.
C6_Witness ==
    /\ obs.ended = "returned"
    /\ obs.n_faults = 0
    /\ ing.batch_size = 2
    /\ Len(obs.parsed) = 3
    /\ Len(obs.handed) = 2
    /\ ing.stats.records_skipped = 0
    /\ ing.stats.records_ingested = 3
    /\ Len(weather_data) = 3

\* The record a valid line of the files stands for.
Expected(raw, station_id) ==
    IF raw = LineA
    THEN [station_id |-> station_id, date |-> <<2023, 1, 1>>, max_temp |-> 100,
          min_temp |-> -50, precipitation |-> 25]
    ELSE IF raw = LineA2
    THEN [station_id |-> station_id, date |-> <<2023, 1, 1>>, max_temp |-> 150,
          min_temp |-> 0, precipitation |-> 0]
    ELSE IF raw = LineB
    THEN [station_id |-> station_id, date |-> <<2023, 1, 2>>, max_temp |-> -9999,
          min_temp |-> -100, precipitation |-> 50]
    ELSE [station_id |-> station_id, date |-> <<2024, 1, 3>>, max_temp |-> -9999,
          min_temp |-> -9999, precipitation |-> -9999]

\* C7: reading a blank line changes nothing of the run; reading a malformed
\* line adds one to errors and changes nothing else (the file goes on with
\* the same buffer); reading a valid line, wherever it stands, changes no
\* counter and appends its record to the buffer, which is handed to the
\* loader at once when it is full; and when the file has been read (no
\* storage failure) the batches handed to the loader are the records of its
\* valid lines in file order.
C7_MalformedLineIsolated ==
    [][/\ (env'.lines = env.lines - 1) =>
              LET raw == obs'.line
                  record == Expected(raw, ing.files[ing.fidx])
              IN  /\ weather_data' = weather_data
                  /\ raw = LineBlank => (ing' = ing /\ obs'.parsed = obs.parsed)
                  /\ raw = LineBad =>
                         /\ Counted("errors")
                         /\ ing' = [ing EXCEPT !.stats.errors = @ + 1]
                         /\ obs'.parsed = obs.parsed
                  /\ raw \in {LineA, LineA2, LineB, LineC} =>
                         /\ ing'.stats = ing.stats
                         /\ ing'.batch = Append(ing.batch, record)
                         /\ obs'.parsed = Append(obs.parsed, record)
                         /\ \/ ing'.pc = "reading" /\ obs'.handed = obs.handed
                            \/ /\ ing'.pc = "bulk"
                               /\ obs'.handed = Append(obs.handed, ing'.batch)
       /\ (obs'.ended = "returned" /\ obs'.n_faults = 0) =>
              Concat(obs'.handed) = obs'.parsed]_vars

\* C7 witness: a file with a malformed line and, after it, a valid line has
\* been read: one error, both valid lines committed.
C7_Witness ==
    /\ obs.ended = "returned"
    /\ obs.n_faults = 0
    /\ obs.n_bad = 1
    /\ obs.line = LineB
    /\ Len(obs.parsed) = 2
    /\ ing.stats.errors = 1
    /\ ing.stats.records_ingested = 2
    /\ Len(weather_data) = 2

\* C8: a file that cannot be opened or read adds one to errors and nothing
\* to files_processed, and the run is at the next file with the table, the
\* session, the other counters and an empty buffer as if the file had not
\* been there; rows are only ever added under the station of the file at
\* hand; and when the run returns (no storage failure) files_processed plus
\* the files that could not be opened or read is the number of files found.
C8_FileFailureIsolated ==
    [][/\ (obs'.n_io = obs.n_io + 1) =>
              /\ Counted("errors")
              /\ ing' = [ing EXCEPT !.stats.errors = @ + 1, !.pc = "next_file",
                                    !.fidx = @ + 1, !.batch = <<>>,
                                    !.line_count = ing'.line_count]
              /\ weather_data' = weather_data
       /\ \A k \in (Len(weather_data) + 1)..Len(weather_data') :
              weather_data'[k].station_id = ing.files[ing.fidx]
       /\ (ing'.pc = "done" /\ obs'.n_faults = 0) =>
              ing'.stats.files_processed + obs'.n_io = Len(ing'.files)]_vars

\* C8 witness: of two files the first could not be opened or read, the
\* second was ingested and the run returned.
C8_Witness ==
    /\ ing.pc = "done"
    /\ ing.files = <<"S1", "S2">>
    /\ obs.n_io = 1
    /\ obs.n_faults = 0
    /\ ing.stats.files_processed = 1
    /\ ing.stats.errors = 1
    /\ ing.stats.records_ingested >= 1
    /\ \A k \in 1..Len(weather_data) : weather_data[k].station_id = "S2"

\* A step of a run that is under way.
RunStep ==
    \/ Return \/ OpenFile \/ EndOfFile \/ BulkCommit \/ BulkConflict
    \/ StorageFails \/ RecordCommit \/ RecordConflict

\* C9: the run fails exactly when its directory does not exist, and then
\* before anything is read: the table is as it was when the run started and
\* the four counters are 0; a run whose directory exists never fails, whatever
\* parse, file, duplicate or storage failure it meets, and can always take
\* its next step until it returns.
C9_OnlyMissingDirectoryFails ==
    /\ ing.pc = "raised" =>
           /\ ~obs.exists
           /\ weather_data = obs.before
           /\ ing.stats = ZeroStats
           /\ obs.n_parsed = 0 /\ obs.n_bad = 0 /\ obs.n_io = 0 /\ obs.n_faults = 0
           /\ obs.line = <<>>
    /\ (ing.pc # "idle" /\ ~obs.exists) => ing.pc = "raised"
    /\ ing.pc \in {"next_file", "reading", "bulk", "indiv"} => ENABLED RunStep

\* C9 witness: a run on a missing directory has failed next to the rows an
\* earlier run committed.
C9_Witness ==
    /\ ing.pc = "raised"
    /\ weather_data # <<>>
    /\ weather_data = obs.before

\* The rows of the table that lie in the group and carry a measurement in
\* the column.
Measured(table, station_id, year, column) ==
    {k \in 1..Len(table) : /\ table[k].station_id = station_id
                           /\ table[k].date[1] = year
                           /\ table[k][column] # -9999}

RECURSIVE Total(_, _, _)
Total(table, ids, column) ==
    IF ids = {} THEN 0
    ELSE LET k == CHOOSE j \in ids : TRUE
         IN  table[k][column] + Total(table, ids \ {k}, column)

\* The float is the fraction n / d.
IsFraction(float, n, d) ==
    /\ float # None
    /\ float[2] > 0
    /\ float[1] * d = n * float[2]

\* C10: the row of weather_stats an aggregation commits for a group carries,
\* in each derived field, what the values of the field's own column that are
\* not -9999 give over the rows of the group: their mean divided by 10 for
\* avg_max_temp and avg_min_temp, their sum divided by 100 for
\* total_precipitation; a row that lacks one measurement counts with its
\* other two. Max temps 100, 150 and -9999 give 12.5.
C10_OwnColumnWithoutSentinel ==
    [][(calc.pc = "commit") =>
          LET station_id == calc.station_years[calc.gidx][1]
              year == calc.station_years[calc.gidx][2]
              maxs == Measured(weather_data, station_id, year, "max_temp")
              mins == Measured(weather_data, station_id, year, "min_temp")
              precs == Measured(weather_data, station_id, year, "precipitation")
              group == {k \in 1..Len(weather_data) :
                           /\ weather_data[k].station_id = station_id
                           /\ weather_data[k].date[1] = year}
              stats == {k \in 1..Len(weather_stats') :
                           /\ weather_stats'[k].station_id = station_id
                           /\ weather_stats'[k].year = year}
          IN  /\ stats # {}
              /\ \A k \in stats :
                   LET stat == weather_stats'[k] IN
                   /\ maxs # {} =>
                          IsFraction(stat.avg_max_temp,
                              Total(weather_data, maxs, "max_temp"),
                              Cardinality(maxs) * 10)
                   /\ mins # {} =>
                          IsFraction(stat.avg_min_temp,
                              Total(weather_data, mins, "min_temp"),
                              Cardinality(mins) * 10)
                   /\ precs # {} =>
                          IsFraction(stat.total_precipitation,
                              Total(weather_data, precs, "precipitation"), 100)
                   /\ (/\ Cardinality(group) = 3
                       /\ {weather_data[j].max_temp : j \in group} = {100, 150, -9999})
                          => stat.avg_max_temp = <<25, 2>>]_vars

\* C10 witness: the group of S1 in 2023 has three rows, one of them without
\* max_temp, and its committed row carries 12.5, -5.0 and 0.75: the row
\* without max_temp counts in the other two fields.
C10_Witness ==
    /\ calc.pc = "done"
    /\ \E k \in 1..Len(weather_data) :
           /\ weather_data[k].station_id = "S1"
           /\ weather_data[k].date[1] = 2023
           /\ weather_data[k].max_temp = -9999
           /\ weather_data[k].min_temp = -100
           /\ weather_data[k].precipitation = 50
    /\ \E k \in 1..Len(weather_stats) :
           /\ weather_stats[k].station_id = "S1"
           /\ weather_stats[k].year = 2023
           /\ weather_stats[k].avg_max_temp = <<25, 2>>
           /\ weather_stats[k].avg_min_temp = <<-5, 1>>
           /\ weather_stats[k].total_precipitation = <<3, 4>>

\* The group the aggregation run is at.
Group == calc.station_years[calc.gidx]

\* The rows of weather_stats under the key.
StatsOf(table, station_id, year) ==
    {k \in 1..Len(table) : table[k].station_id = station_id /\ table[k].year = year}

\* C11: in the row of weather_stats an aggregation commits for a group, a
\* derived field is None exactly when no row of the group carries a value
\* other than -9999 in the field's column; values that sum to 0 give the
\* float 0 and not None, and a column of sentinels gives None and not 0.
C11_NullIffAllSentinel ==
    [][(calc.pc = "commit") =>
          LET maxs == Measured(weather_data, Group[1], Group[2], "max_temp")
              mins == Measured(weather_data, Group[1], Group[2], "min_temp")
              precs == Measured(weather_data, Group[1], Group[2], "precipitation")
          IN  \A k \in StatsOf(weather_stats', Group[1], Group[2]) :
                  LET stat == weather_stats'[k] IN
                  /\ stat.avg_max_temp = None <=> maxs = {}
                  /\ stat.avg_min_temp = None <=> mins = {}
                  /\ stat.total_precipitation = None <=> precs = {}
                  /\ maxs = {} => stat.avg_max_temp # <<0, 1>>
                  /\ mins = {} => stat.avg_min_temp # <<0, 1>>
                  /\ precs = {} => stat.total_precipitation # <<0, 1>>
                  /\ (mins # {} /\ Total(weather_data, mins, "min_temp") = 0)
                         => stat.avg_min_temp = <<0, 1>>
                  /\ (precs # {} /\ Total(weather_data, precs, "precipitation") = 0)
                         => stat.total_precipitation = <<0, 1>>]_vars

\* C11 witness: one committed row carries the float 0 for a column whose
\* values sum to 0, another carries None in all three fields for a group
\* without any measurement, a third None for max_temp only.
C11_Witness ==
    /\ calc.pc = "done"
    /\ \E k \in 1..Len(weather_stats) :
           /\ weather_stats[k].avg_min_temp = <<0, 1>>
           /\ weather_stats[k].total_precipitation = <<0, 1>>
           /\ weather_stats[k].avg_max_temp = <<15, 1>>
    /\ \E k \in 1..Len(weather_stats) :
           /\ weather_stats[k].avg_max_temp = None
           /\ weather_stats[k].avg_min_temp = None
           /\ weather_stats[k].total_precipitation = None
    /\ \E k \in 1..Len(weather_stats) :
           /\ weather_stats[k].avg_max_temp = None
           /\ weather_stats[k].avg_min_temp = <<-10, 1>>

\* C12: when calculate_all_stats returns and weather_data is as it was when
\* the run before it returned, both without error, weather_stats is as that
\* run left it: the same rows in the same places with the same station_id,
\* year and derived fields (the model keeps no timestamps); on the way every
\* commit of the second run rewrites a row with the values it holds and adds
\* none.
C12_SecondRunChangesNothing ==
    [][/\ (/\ calc.pc = "group" /\ calc'.pc = "done" /\ calc.mode = "all"
           /\ calc.stats.errors = 0
           /\ hist.complete /\ hist.weather_data = weather_data)
          => /\ weather_stats' = hist.weather_stats
             /\ hist'.weather_stats = hist.weather_stats
             /\ calc.stats.stats_calculated = Len(weather_stats')
       /\ (/\ calc.pc = "commit" /\ calc.mode = "all" /\ hist.complete
           /\ hist.weather_data = weather_data /\ weather_stats' # weather_stats)
          => FALSE]_vars

\* C12 witness: the second calculate_all_stats over the three rows of S1 in
\* 2023 and the row of 2024 has returned, and the two rows of weather_stats
\* are those of the first.
C12_Witness ==
    /\ calc.pc = "done"
    /\ calc.mode = "all"
    /\ env.calcs = MaxCalcs - 2
    /\ hist.complete
    /\ calc.stats.stats_calculated = 2
    /\ Len(weather_data) = 4
    /\ Len(weather_stats) = 2
    /\ weather_stats = hist.weather_stats
    /\ \E k \in 1..2 : weather_stats[k].avg_max_temp = <<25, 2>>

\* C13: weather_stats never holds two rows with the same (station_id,
\* year), whatever whole runs and single-station runs came before; the
\* commit of a group that has a row leaves the number and the order of the
\* rows and every other row as they were and writes the three derived fields
\* of that row; the commit of a group without a row appends exactly one row,
\* under the key of the group, and changes no other.
C13_OneStatPerStationYear ==
    /\ [](\A j, k \in 1..Len(weather_stats) :
            (/\ weather_stats[j].station_id = weather_stats[k].station_id
             /\ weather_stats[j].year = weather_stats[k].year) => j = k)
    /\ [][(calc.pc = "commit") =>
            LET had == StatsOf(weather_stats, Group[1], Group[2]) IN
            IF had # {}
            THEN /\ Len(weather_stats') = Len(weather_stats)
                 /\ \A k \in 1..Len(weather_stats) :
                      IF k \in had
                      THEN weather_stats'[k] =
                               [weather_stats[k] EXCEPT
                                   !.avg_max_temp = calc.avg_max_temp,
                                   !.avg_min_temp = calc.avg_min_temp,
                                   !.total_precipitation = calc.total_precipitation]
                      ELSE weather_stats'[k] = weather_stats[k]
            ELSE /\ Len(weather_stats') = Len(weather_stats) + 1
                 /\ SubSeq(weather_stats', 1, Len(weather_stats)) = weather_stats
                 /\ weather_stats'[Len(weather_stats')].station_id = Group[1]
                 /\ weather_stats'[Len(weather_stats')].year = Group[2]]_vars

\* C13 witness: a second run, a whole one, has committed each of the three
\* groups of the table, of which the first run had created two or three:
\* three groups, three rows.
C13_Witness ==
    /\ calc.pc = "done"
    /\ calc.mode = "all"
    /\ env.calcs = MaxCalcs - 2
    /\ Cardinality(StationYears(weather_data)) = 3
    /\ Len(weather_stats) = 3
    /\ calc.stats.stats_calculated = 3
    /\ weather_stats[3].station_id = "S2"

\* C15 (as claimed): a group is counted as an error only when the storage
\* failed under one of its own statements, and then errors grows by one
\* and the run is at the next group; every group whose statements the
\* storage does not fail is committed and counted in stats_calculated; the
\* run goes on to its last group and returns.
C15_GroupFailureIsolated ==
    [][/\ (env'.faults = env.faults - 1) =>
              /\ calc'.stats = [calc.stats EXCEPT !.errors = @ + 1]
              /\ calc'.pc = "group" /\ calc'.gidx = calc.gidx + 1
       /\ (calc'.stats.errors # calc.stats.errors /\ calc.pc # "idle" /\ calc.pc # "done")
              => env'.faults = env.faults - 1
       /\ (calc.pc = "commit" /\ env'.faults = env.faults) =>
              /\ calc'.stats = [calc.stats EXCEPT !.stats_calculated = @ + 1]
              /\ StatsOf(weather_stats', Group[1], Group[2]) # {}]_vars

\* The three derived fields of the row are the summary of the rows the
\* table holds in the group.
IsSummary(stat, table, station_id, year) ==
    LET maxs == Measured(table, station_id, year, "max_temp")
        mins == Measured(table, station_id, year, "min_temp")
        precs == Measured(table, station_id, year, "precipitation")
    IN  /\ IF maxs = {} THEN stat.avg_max_temp = None
           ELSE IsFraction(stat.avg_max_temp, Total(table, maxs, "max_temp"),
                           Cardinality(maxs) * 10)
        /\ IF mins = {} THEN stat.avg_min_temp = None
           ELSE IsFraction(stat.avg_min_temp, Total(table, mins, "min_temp"),
                           Cardinality(mins) * 10)
        /\ IF precs = {} THEN stat.total_precipitation = None
           ELSE IsFraction(stat.total_precipitation,
                           Total(table, precs, "precipitation"), 100)

\* C14: when a calculate_all_stats run that met no error returns, no
\* ingestion being under way, every (station_id, year of date) of
\* weather_data has exactly one row in weather_stats, which carries the
\* summary of the rows weather_data holds now in the group, whatever
\* ingestion and aggregation runs came before; and weather_stats has no row
\* for a pair without a row in weather_data.
C14_AllRunReflectsStore ==
    [][(/\ calc.pc = "group" /\ calc'.pc = "done" /\ calc.mode = "all"
        /\ calc.stats.errors = 0
        /\ ing.pc \in {"idle", "done", "raised"})
       => /\ \A pair \in StationYears(weather_data) :
                /\ Cardinality(StatsOf(weather_stats', pair[1], pair[2])) = 1
                /\ \A k \in StatsOf(weather_stats', pair[1], pair[2]) :
                       IsSummary(weather_stats'[k], weather_data, pair[1], pair[2])
          /\ \A k \in 1..Len(weather_stats') :
                <<weather_stats'[k].station_id, weather_stats'[k].year>>
                    \in StationYears(weather_data)]_vars

\* C14 witness: a whole run has aggregated the one group of the table; an
\* ingestion run has then added a row to that group and a row of another
\* year; the second whole run has committed both groups without error and
\* is about to return: the row of the first group carries new values.
C14_Witness ==
    /\ calc.pc = "group"
    /\ calc.mode = "all"
    /\ calc.gidx > Len(calc.station_years)
    /\ calc.stats.errors = 0
    /\ calc.stats.stats_calculated = 2
    /\ hist.complete
    /\ Len(hist.weather_data) = 1
    /\ Len(weather_data) = 3
    /\ Len(hist.weather_stats) = 1
    /\ Len(weather_stats) = 2
    /\ weather_stats[1].station_id = hist.weather_stats[1].station_id
    /\ weather_stats[1].year = hist.weather_stats[1].year
    /\ weather_stats[1] # hist.weather_stats[1]
    /\ IsSummary(weather_stats[1], weather_data, "S1", weather_stats[1].year)

\* C16: calculate_station_stats(s) enumerates exactly the years in which
\* weather_data holds a row of s; no step of the run changes weather_data or
\* a row of weather_stats of another station, and the rows it adds are rows
\* of s; when it returns every such year has exactly one row of s in
\* weather_stats, carrying the summary of the group as a whole run leaves it.
C16_StationRunTouchesOwnRows ==
    [][/\ (calc'.mode = "station" /\ calc'.pc = "group" /\ calc.pc \in {"idle", "done"})
          => \E s \in Stations :
                 Range(calc'.station_years) =
                     {<<s, y>> : y \in {weather_data[k].date[1] :
                         k \in {j \in 1..Len(weather_data) :
                                   weather_data[j].station_id = s}}}
       /\ (calc.mode = "station" /\ calc.pc \notin {"idle", "done"})
          => /\ weather_data' = weather_data
             /\ Len(weather_stats') >= Len(weather_stats)
             /\ \A k \in 1..Len(weather_stats) :
                    \/ weather_stats'[k] = weather_stats[k]
                    \/ /\ weather_stats[k].station_id = Group[1]
                       /\ weather_stats'[k].station_id = Group[1]
                       /\ weather_stats'[k].year = weather_stats[k].year
             /\ \A k \in (Len(weather_stats) + 1)..Len(weather_stats') :
                    weather_stats'[k].station_id = Group[1]
             /\ calc'.pc = "done" =>
                    \A pair \in Range(calc.station_years) :
                        /\ Cardinality(StatsOf(weather_stats', pair[1], pair[2])) = 1
                        /\ \A k \in StatsOf(weather_stats', pair[1], pair[2]) :
                               IsSummary(weather_stats'[k], weather_data,
                                         pair[1], pair[2])]_vars

\* C16 witness: after a whole run over the six rows, calculate_station_stats
\* of S1 has committed the two years of S1 and returned; the row of S2 is
\* where and as the whole run left it.
C16_Witness ==
    /\ calc.pc = "done"
    /\ calc.mode = "station"
    /\ hist.complete
    /\ Len(weather_data) = 6
    /\ calc.stats.stats_calculated = 2
    /\ \A k \in 1..2 : calc.station_years[k][1] = "S1"
    /\ weather_stats = hist.weather_stats
    /\ \E k \in 1..Len(weather_stats) : weather_stats[k].station_id = "S2"

\* C17: two ingestion runs with interleaved transactions: the
\* records ingested by the two, together, are the rows of the table, at
\* every moment; the insert of a record whose key the other run has
\* persisted counts the record as skipped, not as ingested and not as an
\* error, and leaves the row; and when both have returned every record
\* either has parsed has a row under its key, each run has counted each of
\* its records once as ingested or skipped and none as an error.
C17_NoRecordLost ==
    [][/\ ing'.stats.records_ingested + peer'.ing.stats.records_ingested
              = Len(weather_data')
       /\ (ing.pc = "indiv" /\ peer' = peer
           /\ Persisted(weather_data, ing.batch[ing.idx]))
          => /\ Counted("records_skipped")
             /\ weather_data' = weather_data
       /\ (ing'.pc = "done" /\ peer'.ing.pc = "done")
          => /\ \A k \in 1..Len(obs'.parsed) : Persisted(weather_data', obs'.parsed[k])
             /\ \A k \in 1..Len(peer'.obs.parsed) :
                    Persisted(weather_data', peer'.obs.parsed[k])
             /\ ing'.stats.records_ingested + ing'.stats.records_skipped
                    = obs'.n_parsed
             /\ peer'.ing.stats.records_ingested + peer'.ing.stats.records_skipped
                    = peer'.obs.n_parsed
             /\ ing'.stats.errors = 0 /\ peer'.ing.stats.errors = 0]_vars

\* The number of fields of the line: one more than its tabs.
Fields(line) == 1 + Cardinality({k \in 1..Len(line) : line[k] = TAB})

\* The lines the contract of the parser rejects, by the way they are made:
\* not four fields, a date field that is not YYYYMMDD of a calendar date, a
\* numeric field that is not an integer (also for its length: more than
\* 4300 digits).
RejectedLines ==
    {line \in ParseInputs : Fields(line) # 4}
    \cup { Line4(f[1], f[2], f[3], f[4]) :
             f \in {g \in NearChoices : \/ g[1] \in BadDateFields
                                        \/ g[2] \in BadIntFields
                                        \/ g[3] \in BadIntFields
                                        \/ g[4] \in BadIntFields} }

\* C18 (as claimed): a call of the parser with a line that has not four
\* fields, or whose date field is not YYYYMMDD of a calendar date, or one of
\* whose numeric fields is not an integer, raises and returns no record; and
\* no call changes a table or a counter.
C18_MalformedLineRaises ==
    /\ (call # NoCall /\ call.line \in RejectedLines)
           => (call.raised /\ call.result = <<>>)
    /\ weather_data = <<>> /\ weather_stats = <<>>
    /\ ing = IdleIngester /\ calc = IdleCalculator


\* The decimal numeral of a natural number, of at least width digits.
RECURSIVE Numeral(_, _)
Numeral(n, width) ==
    IF n < 10 /\ width <= 1 THEN <<AsciiDigit(n)>>
    ELSE Numeral(n \div 10, width - 1) \o <<AsciiDigit(n % 10)>>

\* The field an integer is written as.
FormatInt(n) == IF n < 0 THEN <<MINUS>> \o Numeral(0 - n, 1) ELSE Numeral(n, 1)

\* The field a date is written as: YYYYMMDD.
FormatDate(date) == Numeral(date[1], 4) \o Numeral(date[2], 2) \o Numeral(date[3], 2)

\* C19: a call of the parser with a line of a YYYYMMDD date of the calendar
\* and three integers, and any station identifier, returns a record with
\* that station identifier from which the four fields, written out again,
\* are those of the line: no unit is converted and -9999 stays -9999. The
\* line of the test gives 1985-01-01, -22, -128 and 94; with a zero of 4300
\* digits for its max_temp it gives max_temp 0.
C19_ValidLineRoundTrip ==
    /\ \A d \in ValidDateFields, a \in ValidIntFields, b \in ValidIntFields,
          c \in ValidIntFields :
        (call # NoCall /\ call.line = Line4(d, a, b, c)) =>
            /\ ~call.raised
            /\ Len(call.result) = 1
            /\ call.result[1].station_id = call.station_id
            /\ FormatDate(call.result[1].date) = d
            /\ FormatInt(call.result[1].max_temp) = a
            /\ FormatInt(call.result[1].min_temp) = b
            /\ FormatInt(call.result[1].precipitation) = c
            /\ a = Missing => call.result[1].max_temp = -9999
            /\ b = Missing => call.result[1].min_temp = -9999
            /\ c = Missing => call.result[1].precipitation = -9999
    /\ (call # NoCall /\ call.line = Line4(TestFields[1], TestFields[2], TestFields[3],
                                            TestFields[4])) =>
            call.result = <<[station_id |-> call.station_id, date |-> <<1985, 1, 1>>,
                             max_temp |-> -22, min_temp |-> -128,
                             precipitation |-> 94]>>
    /\ (call # NoCall
           /\ call.line = Line4(TestFields[1], Repeated(AsciiDigit(0), MaxStrDigits),
                                TestFields[3], TestFields[4])) =>
            /\ ~call.raised
            /\ call.result[1].max_temp = 0

\* C19 witness: the call with the line of 29 February 2024 without max_temp
\* for station S2 has returned its record.
C19_Witness ==
    /\ call.station_id = "S2"
    /\ ~call.raised
    /\ call.result = <<[station_id |-> "S2", date |-> <<2024, 2, 29>>,
                        max_temp |-> -9999, min_temp |-> -128,
                        precipitation |-> 94]>>

\* C20: a step adds to records_skipped only as the insert of one record of
\* the per-record loop whose (station, date) key has a row in the table: it
\* adds one, writes no row and adds nothing to errors; a step in which the
\* session raises anything else (a storage failure, or the failure of a
\* session never rolled back) adds nothing to records_skipped and one to
\* errors, and writes no row.
C20_SkipOnlyForPersistedKey ==
    [][ /\ ing'.stats.records_skipped > ing.stats.records_skipped =>
              /\ ing.pc = "indiv"
              /\ Key(ing.batch[ing.idx]) \in KeysOf(weather_data)
              /\ ing'.stats.records_skipped = ing.stats.records_skipped + 1
              /\ ing'.stats.errors = ing.stats.errors
              /\ ing'.stats.records_ingested = ing.stats.records_ingested
              /\ obs'.n_faults = obs.n_faults
              /\ weather_data' = weather_data
        /\ obs'.n_faults = obs.n_faults + 1 =>
              /\ ing.pc \in {"bulk", "indiv"}
              /\ ing'.stats.records_skipped = ing.stats.records_skipped
              /\ ing'.stats.errors = ing.stats.errors + 1
              /\ ing'.stats.records_ingested = ing.stats.records_ingested
              /\ weather_data' = weather_data
      ]_vars

\* C20 witness: a run has returned after it skipped a record whose key had
\* a row and after a storage failure under a later insert, counted in errors.
C20_Witness ==
    /\ ing.pc = "done"
    /\ ing.stats.records_skipped = 1
    /\ obs.n_faults = 1
    /\ ing.stats.errors = 1
    /\ ing.stats.records_ingested = 1

\* C21: every step of ingestion runs (commits, conflicts and their
\* rollbacks, storage failures, later files and runs) and of aggregation
\* runs leaves every row of weather_data in the table with the values it
\* has, and in its place.
C21_RowsOnlyGrow ==
    [][ /\ \A row \in Range(weather_data) : row \in Range(weather_data')
        /\ Len(weather_data') >= Len(weather_data)
        /\ SubSeq(weather_data', 1, Len(weather_data)) = weather_data
      ]_vars

\* C21 witness: a run has returned that committed a batch and then met a
\* storage failure under a later insert, and an aggregation run over its
\* rows has returned; the rows are in the table.
C21_Witness ==
    /\ ing.pc = "done"
    /\ obs.n_faults >= 1
    /\ Len(weather_data) > Len(obs.before)
    /\ calc.pc = "done"
    /\ calc.stats.stats_calculated >= 1
    /\ hist.weather_data = weather_data

\* The rows, with their ids, that the filters of the request at hand leave
\* of a table.
Listed(table) == Range(Filtered(table, http.args))

\* The number of listed rows that come before the row of an item: of a
\* later date, or of the same date and a station identifier before its own.
Position(item, listed) ==
    Cardinality({row \in listed :
        \/ DateLess(item.date, row.date)
        \/ row.date = item.date
               /\ StationRank[row.station_id] < StationRank[item.station_id]})

\* The items of the response at hand are page k of size n of the listed
\* rows of the table: the rows at positions (k-1)*n .. k*n-1, in this order.
ItemsOfPage(k, n, table) ==
    LET data == http.response.data
        listed == Listed(table)
    IN  /\ \A j \in 1..Len(data) :
              /\ \E row \in listed : data[j].id = row.id
                                      /\ data[j].station_id = row.station_id
                                      /\ data[j].date = row.date
              /\ Position(data[j], listed) = (k - 1) * n + j - 1
        /\ \A row \in listed :
              (\E j \in 1..Len(data) : data[j].id = row.id)
                  <=> (/\ (k - 1) * n <= Position(row, listed)
                       /\ Position(row, listed) <= k * n - 1)

\* The pagination of the response at hand is that of pages of size n of
\* the listed rows of the table: total is their number and pages is
\* ceil(total / n).
TotalsOfPage(n, table) ==
    LET total == Cardinality(Listed(table))
    IN  /\ http.response.total = total
        /\ IF total = 0 THEN http.response.pages = 0
           ELSE /\ (http.response.pages - 1) * n < total
                /\ total <= http.response.pages * n

\* The response at hand is page k of size n of the rows the first statement
\* found, with the pagination of the rows the second statement found.
IsPage(k, n) == ItemsOfPage(k, n, http.read) /\ TotalsOfPage(n, http.counted)

\* The argument is given and its text is no number int() converts: it is
\* empty, holds a letter, a point or one of the separators U+001C to
\* U+001F, or holds more than 4300 digits.
NotANumber(arg) ==
    /\ arg # <<>>
    /\ \/ arg[1] = <<>>
       \/ Cardinality({k \in 1..Len(arg[1]) : arg[1][k] \in 48..57}) > 4300
       \/ \E k \in 1..Len(arg[1]) : arg[1][k] \in (28..31) \cup {46} \cup (97..122)

\* The request at hand has been answered with a listing.
Answered == http.pc = "sent" /\ http.response.status = 200

\* C22 (as claimed): every answered listing request with page k and
\* per_page p is page k of size min(p, 1000) of the filtered rows of the
\* table it was asked of, in the order date descending, station identifier
\* ascending, with their number as total.
C22_PageOfCappedSize ==
    Answered =>
        /\ ItemsOfPage(PageOf(http.args), PerPageOf(http.args), http.read)
        /\ TotalsOfPage(PerPageOf(http.args), http.read)

\* C22 (amended): for page k >= 1 and per_page p >= 1 the items are page k
\* of size min(p, 1000) of the filtered rows the first statement of the
\* listing found, and total and pages count the filtered rows its second
\* statement found: the same rows when no row is committed between the
\* two. A page below 1 is answered as page 1; a per_page below 1 is
\* answered with size 20, or, for per_page 0, with no items and no pages. A
\* page or per_page that int() does not take (blanks around the number are
\* taken, the separators U+001C to U+001F are not) is answered with status
\* 500 and no listing. 150
\* records on one day with per_page 50: 50 items on pages 1 and 2, total
\* 150, pages 3.
C22_PageOfEffectiveSize ==
    /\ Answered =>
        LET k == IF PageOf(http.args) < 1 THEN 1 ELSE PageOf(http.args)
            p == PerPageOf(http.args)
        IN  /\ p >= 1 => IsPage(k, p)
            /\ p < 0 => IsPage(k, DefaultPerPage)
            /\ p = 0 => \/ IsPage(k, DefaultPerPage)
                        \/ /\ http.response.data = <<>>
                           /\ http.response.pages = 0
                           /\ http.response.total = Cardinality(Listed(http.counted))
            /\ http.response.page = k
            /\ ~BadInt(http.args.page) /\ ~BadInt(http.args.per_page)
            /\ (/\ Len(http.read) = TestRecords /\ http.counted = http.read
                /\ http.args \in TestRequests)
                   => /\ http.response.total = 150
                      /\ http.response.pages = 3
                      /\ k \in {1, 2} => Len(http.response.data) = 50
    /\ (http.pc = "sent" /\ (BadInt(http.args.page) \/ BadInt(http.args.per_page)))
           => http.response.status = 500 /\ http.response.data = <<>>
    /\ (http.pc = "sent" /\ (NotANumber(http.args.page) \/ NotANumber(http.args.per_page)))
           => http.response.status = 500 /\ http.response.data = <<>>

\* C22 witness: page 2 of size 50 of the 150 records of the test has been
\* answered, from TEST050 to TEST099.
C22_Witness ==
    /\ Answered
    /\ http.args = [NoArgs EXCEPT !.page = <<Text(<<"2">>)>>,
                                  !.per_page = <<Text(<<"5", "0">>)>>]
    /\ http.read = TestTable /\ http.counted = TestTable
    /\ Len(http.response.data) = 50
    /\ http.response.data[1].station_id = "TEST050"
    /\ http.response.data[50].station_id = "TEST099"
    /\ http.response.pages = 3

\* The batch holds a record whose key has a row in the table, or two
\* records with the same key.
HasConflict(table, batch) ==
    \/ \E k \in 1..Len(batch) :
           \E j \in 1..Len(table) :
               /\ table[j].station_id = batch[k].station_id
               /\ table[j].date = batch[k].date
    \/ \E j, k \in 1..Len(batch) :
           /\ j < k
           /\ batch[j].station_id = batch[k].station_id
           /\ batch[j].date = batch[k].date

\* C23: the transaction of a batch that the storage does not fail enters
\* the per-record loop if and only if the batch holds a conflict, and the
\* loop is entered from nowhere else; without a conflict the step appends
\* all records of the batch to the table, adds the length of the batch to
\* records_ingested and leaves records_skipped and errors as they were.
C23_FallbackIffConflict ==
    [][ /\ BulkStep =>
              /\ ing'.pc = "indiv" <=> HasConflict(weather_data, ing.batch)
              /\ ~HasConflict(weather_data, ing.batch) =>
                     /\ weather_data' = weather_data \o ing.batch
                     /\ ing'.pc # "indiv"
                     /\ ing'.stats.records_ingested =
                            ing.stats.records_ingested + Len(ing.batch)
                     /\ ing'.stats.records_skipped = ing.stats.records_skipped
                     /\ ing'.stats.errors = ing.stats.errors
        /\ (ing'.pc = "indiv" /\ ing.pc # "indiv") =>
              (ing.pc = "bulk" /\ HasConflict(weather_data, ing.batch))
      ]_vars

\* C23 witness: in one file a batch of two records without conflict was
\* committed at once, and the next batch, with a record of a date of the
\* first, went through the per-record loop.
C23_Witness ==
    /\ obs.before = <<>>
    /\ obs.n_faults = 0
    /\ Len(obs.handed) = 2
    /\ Len(obs.handed[1]) = 2
    /\ ~HasConflict(<<>>, obs.handed[1])
    /\ HasConflict(obs.handed[1], obs.handed[2])
    /\ ing.stats.records_ingested = 2
    /\ ing.stats.records_skipped = 1
    /\ Len(weather_data) = 2

\* C24 (as claimed): when an aggregation run of either mode has returned,
\* stats_calculated + errors is the number of (station, year) pairs it
\* enumerated, stations_processed the number of distinct stations and
\* years_processed the number of distinct years among them.
C24_CountersDescribeGroups ==
    calc.pc = "done" =>
        LET pairs == Range(calc.station_years) IN
        /\ calc.stats.stats_calculated + calc.stats.errors = Cardinality(pairs)
        /\ calc.stats.stations_processed = Cardinality({pair[1] : pair \in pairs})
        /\ calc.stats.years_processed = Cardinality({pair[2] : pair \in pairs})

\* Some row of weather_stats does not carry the summary of the rows that
\* weather_data holds in its group.
Stale ==
    \E k \in 1..Len(weather_stats) :
        ~IsSummary(weather_stats[k], weather_data, weather_stats[k].station_id,
                   weather_stats[k].year)

\* C25: with an ingestion run and aggregation runs interleaved in any way,
\* only a commit of an aggregation changes weather_stats (what a run wrote
\* stays until an aggregation writes again, whatever ingestion adds to the
\* group); and when a calculate_all_stats run has returned that found the
\* table as it is now (ingestion had settled), every (station, year) of
\* weather_data has exactly one row, which carries the summary of its
\* group, and no row is stale.
C25_StaleUntilRunAfterSettling ==
    /\ [][weather_stats' # weather_stats =>
              (calc.pc = "commit" /\ ing' = ing /\ weather_data' = weather_data)]_vars
    /\ [](( /\ calc.pc = "done" /\ calc.mode = "all" /\ calc.stats.errors = 0
            /\ hist.started = weather_data)
          => /\ ~Stale
             /\ \A pair \in StationYears(weather_data) :
                    Cardinality(StatsOf(weather_stats, pair[1], pair[2])) = 1)

\* C25 witness: the ingestion run has returned and an aggregation run that
\* started while it was under way has returned without error: it found
\* fewer rows than the table holds now, and a row it wrote is stale.
C25_Witness ==
    /\ ing.pc = "done"
    /\ calc.pc = "done"
    /\ calc.stats.errors = 0
    /\ hist.started # <<>>
    /\ Len(hist.started) < Len(weather_data)
    /\ Stale

\* C26: from the start of an ingestion run on, between its transactions and
\* after it has returned, records_ingested is the number of rows of
\* weather_data less the number it held when the run started, and the rows
\* it held then are its first rows still: each row added was counted, and
\* each record counted has its row.
C26_IngestedIsRowsAdded ==
    ing.pc # "idle" =>
        /\ ing.stats.records_ingested = Len(weather_data) - Len(obs.before)
        /\ Len(weather_data) >= Len(obs.before)
        /\ SubSeq(weather_data, 1, Len(obs.before)) = obs.before

\* C26 witness: a run that found a row in the table is between two batches,
\* after a batch of which it skipped a record and ingested another.
C26_Witness ==
    /\ ing.pc = "reading"
    /\ Len(obs.before) = 1
    /\ Len(weather_data) = 2
    /\ ing.stats.records_ingested = 1
    /\ ing.stats.records_skipped = 1

\* The parsed records of the file at hand that are not the first of their
\* (station, date) in the file, or whose key had a row when the run started.
Repeats ==
    {k \in 1..Len(obs.parsed) :
        \/ Persisted(obs.before, obs.parsed[k])
        \/ \E j \in 1..(k - 1) : /\ obs.parsed[j].station_id = obs.parsed[k].station_id
                                 /\ obs.parsed[j].date = obs.parsed[k].date}

\* C27: when a file has been read and loaded (no storage failure), each
\* parsed record whose key had no row before is in the table with the values
\* of the first line of its date in the file, and the file has added to
\* records_skipped one for every other parsed record of that date (and for
\* every record whose key had a row), whatever the batch size.
C27_FirstLineWins ==
    (obs.ended = "returned" /\ obs.n_faults = 0) =>
        /\ \A k \in 1..Len(obs.parsed) :
               k \notin Repeats =>
                   \E row \in Range(weather_data) : row = obs.parsed[k]
        /\ \A k \in Repeats :
               ~Persisted(obs.before, obs.parsed[k]) =>
                   \A row \in Range(weather_data) :
                       (row.station_id = obs.parsed[k].station_id
                            /\ row.date = obs.parsed[k].date)
                       => \E j \in 1..(k - 1) : j \notin Repeats /\ row = obs.parsed[j]
        /\ ing.stats.records_skipped - obs.stats0.records_skipped
               = Cardinality(Repeats)

\* C27 witness: a file of three lines of one date was loaded with batch
\* size 2 into an empty table: the second line was in the batch of the
\* first, the third in the next batch; the row is the one of the first line
\* and two records were skipped.
C27_Witness ==
    /\ obs.ended = "returned"
    /\ obs.n_faults = 0
    /\ obs.before = <<>>
    /\ ing.batch_size = 2
    /\ Len(obs.parsed) = 3
    /\ obs.parsed[1].max_temp = 100
    /\ obs.parsed[2].max_temp = 150
    /\ obs.parsed[3].max_temp = 150
    /\ obs.parsed[2].date = obs.parsed[1].date
    /\ obs.parsed[3].date = obs.parsed[1].date
    /\ weather_data = <<obs.parsed[1]>>
    /\ ing.stats.records_skipped = 2

\* C28: with two aggregation processes interleaved on a table at rest,
\* weather_stats never holds two rows of one (station, year); the commit of
\* a run that had found no row of its group, when the other run has
\* committed one since, adds no row and changes none, and the run counts
\* the group as an error and not as calculated; and every row carries the
\* summary of its group, as one of the runs computed it.
C28_OneRowUnderTwoRuns ==
    /\ [](\A j, k \in 1..Len(weather_stats) :
              (/\ weather_stats[j].station_id = weather_stats[k].station_id
               /\ weather_stats[j].year = weather_stats[k].year) => j = k)
    /\ [](\A k \in 1..Len(weather_stats) :
              IsSummary(weather_stats[k], weather_data, weather_stats[k].station_id,
                        weather_stats[k].year))
    /\ [][(/\ calc.pc = "commit" /\ calc.existing_stat = 0 /\ peer' = peer
           /\ StatsOf(weather_stats, Group[1], Group[2]) # {})
          => /\ weather_stats' = weather_stats
             /\ calc'.stats.errors = calc.stats.errors + 1
             /\ calc'.stats.stats_calculated = calc.stats.stats_calculated]_vars

\* C28 witness: both processes have run over the table of one group and
\* have returned: one counted the group as calculated, the other as an
\* error, and the table holds the one row.
C28_Witness ==
    /\ calc.pc = "done" /\ peer.calc.pc = "done"
    /\ Len(calc.station_years) = 1 /\ Len(peer.calc.station_years) = 1
    /\ calc.stats.errors = 1 /\ calc.stats.stats_calculated = 0
    /\ peer.calc.stats.errors = 0 /\ peer.calc.stats.stats_calculated = 1
    /\ Len(weather_stats) = 1
    /\ IsSummary(weather_stats[1], weather_data, "S1", 2023)

====
